---- MODULE Spec2Model ----
(***************************************************************************)
(* FX normalisation pipeline of the exchange comparison app:               *)
(*   src/src/fx.py     get_live_fx_rates, calculate_average_fx_from_df,    *)
(*                     get_fx_rates, convert_to_usd                        *)
(*   src/compute.py    compute_exchange_outputs                            *)
(*   src/src/schemas.py  Currency, FXRate, FXConfiguration, ExchangeInput  *)
(*                                                                         *)
(* Numbers.  Rates are Python floats; here a rate is an integer number of  *)
(* ten-thousandths (1.0 is 10000, 3.25 is 32500, 0.2723 is 2723).  Local   *)
(* values are integers, so a converted value v * rate is in the same       *)
(* ten-thousandths.  An Optional[...] value is a sequence: <<>> is None    *)
(* and <<v>> is the value v.                                               *)
(***************************************************************************)
EXTENDS Integers, Sequences, FiniteSets, TLC

VARIABLES
    entry,                \* "compute": compute_exchange_outputs was called;
                          \* "fx": get_fx_rates was called directly
    inputs,               \* compute_exchange_outputs: inputs
    config,               \* the FXConfiguration
    date_range,           \* get_fx_rates: date_range (None or <<start, end>>)
    required_currencies,  \* get_fx_rates: required_currencies
    pc,                   \* position of the call
    idx,                  \* index of the loop in progress (1-based)
    rates,                \* the rate table being built / returned
    errors,               \* get_live_fx_rates: errors
    status,               \* the returned status
    calls,                \* the lookups made so far, in order
    outputs,              \* compute_exchange_outputs: outputs;
                          \* generate_insights: outputs
    audit_records,        \* compute_exchange_outputs: audit_records
    insights              \* generate_insights: insights

vars == <<entry, inputs, config, date_range, required_currencies, pc, idx,
          rates, errors, status, calls, outputs, audit_records, insights>>

-----------------------------------------------------------------------------
(* Bounds *)

\* longest input list of compute_exchange_outputs
MaxInputs == 2
\* longest required_currencies list of a direct get_fx_rates call
MaxRequired == 2
\* longest outputs list of generate_insights
MaxOutputs == 4

-----------------------------------------------------------------------------
(* Values *)

None == <<>>
Some(v) == <<v>>

\* rate=1.0 of the identity FXRate, in ten-thousandths
IdentityRate == 10000

\* class Currency(str, Enum)
CurrencyMembers ==
    {"USD", "AED", "SAR", "KWD", "QAR", "GBP", "EUR", "JPY", "HKD"}

\* the members the model draws currencies from: the usual reporting
\* currency, one with a static rate and one without
Currencies == {"USD", "KWD", "EUR"}

\* FXConfiguration.output_currency: a Currency member (is_enum) or, as the
\* isinstance test of get_fx_rates allows, a plain string
OutputCodes == {"USD", "EUR"}

\* str(x) of an output currency: Currency is a (str, Enum) mix-in, whose
\* str() is the member's qualified name, not its value
PyStr(oc) == IF oc.is_enum THEN "Currency." \o oc.code ELSE oc.code

\* x.value if isinstance(x, Currency) else x
ValueOf(oc) == oc.code

\* static_rates of get_live_fx_rates, in ten-thousandths
static_rates ==
    [AED |-> 2723, SAR |-> 2666, KWD |-> 32500, QAR |-> 2747, HKD |-> 1280]

PrimarySource == "exchangerate.host"
SecondarySource == "ECB via frankfurter.app"
StaticSource == "static_pegged_rate"

\* what the request to api.exchangerate.host can come to:
\*   ok         status 200 with success and a result
\*   http_error a status other than 200, or success false
\*   exception  requests.get raises (timeout, transport), or json() does
PrimaryAnswers ==
    { [kind |-> "ok", result |-> 11000],
      [kind |-> "ok", result |-> 0],
      [kind |-> "ok", result |-> -11000],
      [kind |-> "http_error", result |-> 0],
      [kind |-> "exception", result |-> 0] }

\* what the request to api.frankfurter.app can come to:
\*   ok         status 200 and the quote currency among "rates"
\*   http_error a status other than 200, or no such key
\*   exception  requests.get raises
SecondaryAnswers ==
    { [kind |-> "ok", result |-> 12000],
      [kind |-> "ok", result |-> 0],
      [kind |-> "http_error", result |-> 0],
      [kind |-> "exception", result |-> 0] }

\* FXRate(...): the model's fields (the timestamp is the same for every
\* rate of one call and is left out)
FXRate(base, quote, rate, source) ==
    [base_currency |-> base, quote_currency |-> quote,
     rate |-> rate, source |-> source]

\* FXRate validation: rate: float = Field(..., gt=0), base_currency: Currency
FXRateValid(base, rate) == rate > 0 /\ base \in CurrencyMembers

\* f"{currency}: {text}"
Note(currency, text) == <<currency, text>>

\* a status string: a text, or the notes joined by "; " / ", "
Status(text, items, days) == [text |-> text, items |-> items, days |-> days]

\* rates[key] = fx
Put(table, key, fx) == (key :> fx) @@ table

\* table.get(key)
Get(table, key) == IF key \in DOMAIN table THEN Some(table[key]) ELSE None

EmptyTable == [k \in {} |-> None]

-----------------------------------------------------------------------------
(* get_live_fx_rates: one currency other than the quote currency *)

\* the result of one attempt: whether it was made, the rate it gave, the
\* errors it appended and whether an exception left it
Attempt(made, rate, errs, raised) ==
    [made |-> made, rate |-> rate, errs |-> errs, raised |-> raised]

\* C8 mutant: the exchangerate.host attempt without its try/except
PrimaryAttemptNoCatch(currency, source, pa) ==
    IF source # "exchangerate.host"
    THEN Attempt(FALSE, None, <<>>, FALSE)
    ELSE IF pa.kind = "exception"
    THEN Attempt(TRUE, None, <<>>, TRUE)
    ELSE IF pa.kind = "ok" /\ pa.result # 0
    THEN Attempt(TRUE, Some(pa.result), <<>>, FALSE)
    ELSE Attempt(TRUE, None, <<>>, FALSE)

\* the exchangerate.host attempt (source == "exchangerate.host" only); an
\* exception is caught and noted in errors
PrimaryAttempt(currency, source, pa) ==
    IF source # PrimarySource
    THEN Attempt(FALSE, None, <<>>, FALSE)
    ELSE IF pa.kind = "exception"
    THEN Attempt(TRUE, None,
                 <<Note(currency, "exchangerate.host failed")>>, FALSE)
    ELSE IF pa.kind = "ok" /\ pa.result # 0
    THEN Attempt(TRUE, Some(pa.result), <<>>, FALSE)
    ELSE Attempt(TRUE, None, <<>>, FALSE)

\* C5 mutant: the frankfurter.app attempt made whatever the rate so far
SecondaryAttemptAlways(currency, rate, sa) ==
    IF sa.kind = "exception"
    THEN Attempt(TRUE, None,
                 <<Note(currency, "frankfurter.app failed")>>, FALSE)
    ELSE IF sa.kind = "ok"
    THEN Attempt(TRUE, Some(sa.result), <<>>, FALSE)
    ELSE Attempt(TRUE, None, <<>>, FALSE)

\* the frankfurter.app attempt, made if rate is None; an exception is
\* caught and noted in errors
SecondaryAttempt(currency, rate, sa) ==
    IF rate # None
    THEN Attempt(FALSE, None, <<>>, FALSE)
    ELSE IF sa.kind = "exception"
    THEN Attempt(TRUE, None,
                 <<Note(currency, "frankfurter.app failed")>>, FALSE)
    ELSE IF sa.kind = "ok"
    THEN Attempt(TRUE, Some(sa.result), <<>>, FALSE)
    ELSE Attempt(TRUE, None, <<>>, FALSE)

\* C7 mutant: a static fallback that knows no currency
StaticAttemptNone(currency, rate) ==
    IF rate # None
    THEN Attempt(FALSE, None, <<>>, FALSE)
    ELSE Attempt(TRUE, None, <<>>, FALSE)

\* the static fallback, consulted if rate is still None
StaticAttempt(currency, rate) ==
    IF rate # None
    THEN Attempt(FALSE, None, <<>>, FALSE)
    ELSE IF currency \in DOMAIN static_rates
    THEN Attempt(TRUE, Some(static_rates[currency]),
                 <<Note(currency, "Using static pegged rate (live fetch failed)")>>,
                 FALSE)
    ELSE Attempt(TRUE, None, <<>>, FALSE)

\* one lookup, as recorded in calls
Call(currency, method, got) ==
    [currency |-> currency, method |-> method, got |-> got]

\* the lookups of one currency, as recorded in calls
CallsMade(currency, p, s, t) ==
    (IF p.made THEN <<Call(currency, "primary", p.rate)>> ELSE <<>>)
    \o (IF s.made THEN <<Call(currency, "secondary", s.rate)>> ELSE <<>>)
    \o (IF t.made THEN <<Call(currency, "static", t.rate)>> ELSE <<>>)

\* C6 mutant: no note for a currency left without a rate
FinalNoteNone(currency, rate) == <<>>

\* lines 96-105: the note appended when no rate was found
FinalNote(currency, rate) ==
    IF rate = None
    THEN <<Note(currency, "Could not retrieve rate")>>
    ELSE <<>>

\* lines 53-105 for one currency: the rate found, the source tag, the
\* errors appended, the lookups made, and whether an exception left the
\* attempts
LiveLookup(currency, source, pa, sa) ==
    LET p == PrimaryAttempt(currency, source, pa)
        s == IF p.raised THEN Attempt(FALSE, None, <<>>, FALSE)
             ELSE SecondaryAttempt(currency, p.rate, sa)
        r2 == IF p.rate # None THEN p.rate ELSE s.rate
        t == IF p.raised \/ s.raised THEN Attempt(FALSE, None, <<>>, FALSE)
             ELSE StaticAttempt(currency, r2)
        rate == IF r2 # None THEN r2 ELSE t.rate
        used_source ==
            IF t.made /\ t.rate # None THEN StaticSource
            ELSE IF s.made /\ s.rate # None THEN SecondarySource
            ELSE source
        raised == p.raised \/ s.raised
    IN  [rate |-> rate,
         used_source |-> used_source,
         errs |-> p.errs \o s.errs \o t.errs \o
                  (IF raised THEN <<>> ELSE FinalNote(currency, rate)),
         calls |-> CallsMade(currency, p, s, t),
         raised |-> raised]

\* status = "All rates fetched successfully" if not errors else "; ".join(errors)
LiveStatus(errs) ==
    IF errs = <<>>
    THEN Status("All rates fetched successfully", <<>>, 0)
    ELSE Status("", errs, 0)

-----------------------------------------------------------------------------
(* get_fx_rates, Manual mode *)

\* C9 mutant: the manual-rate mapping looked up before the identity test
RECURSIVE ManualLoopMappingFirst(_, _, _)
ManualLoopMappingFirst(cfg, required, table) ==
    IF required = <<>>
    THEN [raised |-> FALSE, rates |-> table]
    ELSE LET currency == Head(required)
             out == ValueOf(cfg.output_currency)
         IN  IF currency \in DOMAIN cfg.manual_rates
             THEN IF FXRateValid(currency, cfg.manual_rates[currency])
                  THEN ManualLoopMappingFirst(cfg, Tail(required),
                           Put(table, currency,
                               FXRate(currency, out, cfg.manual_rates[currency],
                                      "manual_entry")))
                  ELSE [raised |-> TRUE, rates |-> table]
             ELSE IF currency = out
             THEN ManualLoopMappingFirst(cfg, Tail(required),
                      Put(table, currency,
                          FXRate(currency, out, IdentityRate, "identity")))
             ELSE ManualLoopMappingFirst(cfg, Tail(required), table)

\* the loop of lines 196-212 over the currencies left, from the table so
\* far; raised when FXRate(...) rejects a manual rate
RECURSIVE ManualLoop(_, _, _)
ManualLoop(cfg, required, table) ==
    IF required = <<>>
    THEN [raised |-> FALSE, rates |-> table]
    ELSE LET currency == Head(required)
             out == ValueOf(cfg.output_currency)
         IN  IF currency = out
             THEN ManualLoop(cfg, Tail(required),
                      Put(table, currency,
                          FXRate(currency, out, IdentityRate, "identity")))
             ELSE IF currency \in DOMAIN cfg.manual_rates
             THEN IF FXRateValid(currency, cfg.manual_rates[currency])
                  THEN ManualLoop(cfg, Tail(required),
                           Put(table, currency,
                               FXRate(currency, out, cfg.manual_rates[currency],
                                      "manual_entry")))
                  ELSE [raised |-> TRUE, rates |-> table]
             ELSE ManualLoop(cfg, Tail(required), table)

\* [c for c in required_currencies if c not in rates]
RECURSIVE MissingFrom(_, _)
MissingFrom(required, table) ==
    IF required = <<>> THEN <<>>
    ELSE (IF Head(required) \in DOMAIN table THEN <<>>
          ELSE <<Note(Head(required), "")>>)
         \o MissingFrom(Tail(required), table)

\* lines 214-215
ManualStatus(required, table) ==
    LET missing == MissingFrom(required, table)
    IN  IF missing = <<>>
        THEN Status("Manual rates applied", <<>>, 0)
        ELSE Status("Missing manual rates for: ", missing, 0)

-----------------------------------------------------------------------------
(* get_fx_rates, Average mode *)

\* f"{c}USD"
ColumnOf(c) == c \o "USD"

\* col.replace('USD', ''): every occurrence of USD goes, so USDUSD gives ''
ColumnCurrency(col) ==
    LET c == CHOOSE x \in CurrencyMembers : ColumnOf(x) = col
    IN  IF c = "USD" THEN "" ELSE c

\* [f"{c}USD" for c in required_currencies if c != config.output_currency]
RECURSIVE CurrencyColumns(_, _)
CurrencyColumns(required, out) ==
    IF required = <<>> THEN <<>>
    ELSE (IF Head(required) # out THEN <<ColumnOf(Head(required))>> ELSE <<>>)
         \o CurrencyColumns(Tail(required), out)

\* C11 mutant: the window taken without its last day
RECURSIVE FilterRowsOpenEnd(_, _, _)
FilterRowsOpenEnd(rows, start_date, end_date) ==
    IF rows = <<>> THEN <<>>
    ELSE (IF Head(rows).date >= start_date /\ Head(rows).date < end_date
          THEN <<Head(rows)>> ELSE <<>>)
         \o FilterRowsOpenEnd(Tail(rows), start_date, end_date)

\* fx_df[mask]: the rows whose date lies in [start_date, end_date]
RECURSIVE FilterRows(_, _, _)
FilterRows(rows, start_date, end_date) ==
    IF rows = <<>> THEN <<>>
    ELSE (IF Head(rows).date >= start_date /\ Head(rows).date <= end_date
          THEN <<Head(rows)>> ELSE <<>>)
         \o FilterRows(Tail(rows), start_date, end_date)

\* the non-missing values of a column, in row order
RECURSIVE ColumnValues(_, _)
ColumnValues(rows, col) ==
    IF rows = <<>> THEN <<>>
    ELSE Head(rows).vals[col] \o ColumnValues(Tail(rows), col)

RECURSIVE SumSeq(_)
SumSeq(s) == IF s = <<>> THEN 0 ELSE Head(s) + SumSeq(Tail(s))

\* filtered_df[col].mean(): NaN (None) when no value is left; the model's
\* series are chosen so that the division is exact
Mean(values) ==
    IF values = <<>> THEN None ELSE Some(SumSeq(values) \div Len(values))

\* the loop of lines 146-156: averages (in insertion order, as a sequence of
\* <<currency, rate>>) and missing
RECURSIVE AverageLoop(_, _, _, _)
AverageLoop(filtered, columns, cols, acc) ==
    IF cols = <<>> THEN acc
    ELSE LET col == Head(cols)
             avg == IF col \in columns THEN Mean(ColumnValues(filtered, col))
                    ELSE None
         IN  AverageLoop(filtered, columns, Tail(cols),
                 IF avg # None
                 THEN [acc EXCEPT !.averages =
                          @ \o << <<ColumnCurrency(col), avg[1]>> >>]
                 ELSE [acc EXCEPT !.missing = @ \o <<Note(col, "")>>])

calculate_average_fx_from_df(fx_df, start_date, end_date, currency_columns) ==
    IF ~fx_df.has_date
    THEN [averages |-> <<>>,
          status |-> Status("Error: 'date' column not found in FX data", <<>>, 0)]
    ELSE LET filtered == FilterRows(fx_df.rows, start_date, end_date)
         IN  IF filtered = <<>>
             THEN [averages |-> <<>>,
                   status |-> Status("No FX data found for date range", <<>>, 0)]
             ELSE LET r == AverageLoop(filtered, fx_df.columns, currency_columns,
                                       [averages |-> <<>>, missing |-> <<>>])
                  IN  [averages |-> r.averages,
                       status |-> Status("Calculated averages from days",
                                         r.missing, Len(filtered))]

\* source=f"average_{date_range[0]}_to_{date_range[1]}"
AverageSource(dr) ==
    "average_" \o ToString(dr[1]) \o "_to_" \o ToString(dr[2])

\* the loop of lines 238-245 over averages.items(); raised when FXRate(...)
\* rejects the pair
RECURSIVE AverageStore(_, _, _, _)
AverageStore(averages, out, source, table) ==
    IF averages = <<>>
    THEN [raised |-> FALSE, rates |-> table]
    ELSE LET currency == Head(averages)[1]
             rate == Head(averages)[2]
         IN  IF FXRateValid(currency, rate)
             THEN AverageStore(Tail(averages), out, source,
                      Put(table, currency, FXRate(currency, out, rate, source)))
             ELSE [raised |-> TRUE, rates |-> table]

\* config.output_currency in required_currencies
InList(x, list) == \E i \in 1..Len(list) : list[i] = x

\* the key the identity rate of Average mode is stored under:
\* rates[str(config.output_currency)]
AverageIdentityKey(oc) == PyStr(oc)

\* lines 225-257: raised, or the (rates, status) returned
AverageCompute(cfg, required, dr) ==
    LET out == ValueOf(cfg.output_currency)
        avg == calculate_average_fx_from_df(
                   cfg.average_fx_data[1], dr[1][1], dr[1][2],
                   CurrencyColumns(required, out))
        stored == AverageStore(avg.averages, out, AverageSource(dr[1]),
                               EmptyTable)
    IN  IF stored.raised
        THEN [raised |-> TRUE, rates |-> EmptyTable, status |-> avg.status]
        ELSE [raised |-> FALSE,
              rates |-> IF InList(out, required)
                        THEN Put(stored.rates,
                                 AverageIdentityKey(cfg.output_currency),
                                 FXRate(out, out, IdentityRate, "identity"))
                        ELSE stored.rates,
              status |-> avg.status]

\* C10 mutant: the identity rate stored before the two checks
AverageRatesIdentityFirst(cfg, required, dr) ==
    LET out == ValueOf(cfg.output_currency)
        early == IF InList(out, required)
                 THEN Put(EmptyTable, AverageIdentityKey(cfg.output_currency),
                          FXRate(out, out, IdentityRate, "identity"))
                 ELSE EmptyTable
    IN  IF cfg.average_fx_data = None
        THEN [raised |-> FALSE, rates |-> early,
              status |-> Status("No average FX data provided", <<>>, 0)]
        ELSE IF dr = None
        THEN [raised |-> FALSE, rates |-> early,
              status |-> Status("Date range required for average FX calculation",
                                <<>>, 0)]
        ELSE AverageCompute(cfg, required, dr)

\* lines 218-257: raised, or the (rates, status) returned
AverageRates(cfg, required, dr) ==
    IF cfg.average_fx_data = None
    THEN [raised |-> FALSE, rates |-> EmptyTable,
          status |-> Status("No average FX data provided", <<>>, 0)]
    ELSE IF dr = None
    THEN [raised |-> FALSE, rates |-> EmptyTable,
          status |-> Status("Date range required for average FX calculation",
                            <<>>, 0)]
    ELSE AverageCompute(cfg, required, dr)

-----------------------------------------------------------------------------
(* convert_to_usd and the per-record body of compute_exchange_outputs *)

\* C2 mutant: an absent value or rate converted to zero
convert_to_usd_zero(value, fx_rate) ==
    IF value = None \/ fx_rate = None
    THEN Some(0)
    ELSE Some(value[1] * fx_rate[1].rate)

\* value * fx_rate.rate, or None when either is None
convert_to_usd(value, fx_rate) ==
    IF value = None \/ fx_rate = None
    THEN None
    ELSE Some(value[1] * fx_rate[1].rate)

\* lines 121-130: the missing fields, in the order they are checked
MissingFields(inp, currency, fx_rate) ==
    (IF inp.ytd_percent = None THEN <<"ytd_percent">> ELSE <<>>)
    \o (IF inp.market_cap_local = None THEN <<"market_cap">> ELSE <<>>)
    \o (IF inp.adtv_local = None THEN <<"adtv">> ELSE <<>>)
    \o (IF fx_rate = None /\ currency # "USD"
        THEN <<"fx_rate_" \o currency>> ELSE <<>>)

\* inp.source_timestamp or datetime.utcnow()
OrNow(ts) == IF ts = None THEN Some("utcnow") ELSE ts

(***************************************************************************)
(* compute.py: the display formatters                                      *)
(*                                                                         *)
(* A value is a decimal m * 10^e, a display string is the record of its    *)
(* parts: the symbol or sign in front, the number as a count of            *)
(* 10^-places, and the suffix.                                             *)
(***************************************************************************)
Dec(m, e) == [m |-> m, e |-> e]

RECURSIVE Pow10(_)
Pow10(n) == IF n = 0 THEN 1 ELSE 10 * Pow10(n - 1)

\* value >= 10^k (a mantissa is below 10^10)
AtLeastPow10(d, k) ==
    IF d.m <= 0 THEN FALSE
    ELSE IF d.e >= k THEN TRUE
    ELSE IF k - d.e > 9 THEN FALSE
    ELSE d.m >= Pow10(k - d.e)

\* a / b to the nearest integer, a tie to the even one, as the 'f' format
\* rounds a value that is a tie exactly
RoundHalfEven(a, b) ==
    LET q == a \div b
        r == a % b
    IN  IF 2 * r > b \/ (2 * r = b /\ q % 2 = 1) THEN q + 1 ELSE q

\* f"{value / 10^k:.<places>f}": the count of 10^-places shown
Fixed(d, k, places) ==
    LET shift == d.e - k + places
    IN  IF shift >= 0 THEN d.m * Pow10(shift)
        ELSE IF -shift > 9 THEN 0
        ELSE RoundHalfEven(d.m, Pow10(-shift))

\* the literal "N/A"
NA == [na |-> TRUE, symbol |-> "", number |-> 0, places |-> 0, suffix |-> ""]

Shown(symbol, number, places, suffix) ==
    [na |-> FALSE, symbol |-> symbol, number |-> number, places |-> places,
     suffix |-> suffix]

\* lines 16-37
format_market_cap(value) ==
    IF value = None THEN NA
    ELSE IF AtLeastPow10(value[1], 12)
         THEN Shown("$", Fixed(value[1], 12, 2), 2, "T")
    ELSE IF AtLeastPow10(value[1], 9)
         THEN Shown("$", Fixed(value[1], 9, 2), 2, "B")
    ELSE IF AtLeastPow10(value[1], 6)
         THEN Shown("$", Fixed(value[1], 6, 2), 2, "M")
    ELSE Shown("$", Fixed(value[1], 0, 0), 0, "")

\* lines 40-61
format_adtv(value) ==
    IF value = None THEN NA
    ELSE IF AtLeastPow10(value[1], 9)
         THEN Shown("$", Fixed(value[1], 9, 2), 2, "B")
    ELSE IF AtLeastPow10(value[1], 6)
         THEN Shown("$", Fixed(value[1], 6, 2), 2, "M")
    ELSE IF AtLeastPow10(value[1], 3)
         THEN Shown("$", Fixed(value[1], 3, 2), 2, "K")
    ELSE Shown("$", Fixed(value[1], 0, 0), 0, "")

\* C28 mutant: a YTD of zero is taken for no YTD
format_percent_falsy(value) ==
    IF value = None \/ value[1].m = 0 THEN NA
    ELSE Shown(IF value[1].m >= 0 THEN "+" ELSE "", Fixed(value[1], 0, 2),
               2, "%")

\* lines 64-78
format_percent(value) ==
    IF value = None THEN NA
    ELSE Shown(IF value[1].m >= 0 THEN "+" ELSE "", Fixed(value[1], 0, 2),
               2, "%")

\* a YTD in percent and an amount in ten-thousandths of a dollar as decimals
Percent(value) == IF value = None THEN None ELSE Some(Dec(value[1], 0))

Dollars(value) == IF value = None THEN None ELSE Some(Dec(value[1], -4))

\* C14 mutant: the source tag left at the output model's default
ExchangeOutputDefaultSource(inp, currency, fx_rate) ==
    [region |-> inp.region,
     exchange |-> inp.exchange,
     index_name |-> inp.index_name,
     local_currency |-> currency,
     ytd_percent |-> inp.ytd_percent,
     ytd_percent_display |-> format_percent(Percent(inp.ytd_percent)),
     market_cap_local |-> inp.market_cap_local,
     market_cap_usd |-> convert_to_usd(inp.market_cap_local, fx_rate),
     market_cap_usd_display |->
         format_market_cap(Dollars(convert_to_usd(inp.market_cap_local,
                                                  fx_rate))),
     adtv_local |-> inp.adtv_local,
     adtv_usd |-> convert_to_usd(inp.adtv_local, fx_rate),
     adtv_usd_display |->
         format_adtv(Dollars(convert_to_usd(inp.adtv_local, fx_rate))),
     fx_rate_used |-> IF fx_rate # None THEN Some(fx_rate[1].rate) ELSE None,
     source |-> "manual",
     source_url |-> inp.source_url,
     source_timestamp |-> OrNow(inp.source_timestamp)]

\* lines 133-150
ExchangeOutput(inp, currency, fx_rate) ==
    [region |-> inp.region,
     exchange |-> inp.exchange,
     index_name |-> inp.index_name,
     local_currency |-> currency,
     ytd_percent |-> inp.ytd_percent,
     ytd_percent_display |-> format_percent(Percent(inp.ytd_percent)),
     market_cap_local |-> inp.market_cap_local,
     market_cap_usd |-> convert_to_usd(inp.market_cap_local, fx_rate),
     market_cap_usd_display |->
         format_market_cap(Dollars(convert_to_usd(inp.market_cap_local,
                                                  fx_rate))),
     adtv_local |-> inp.adtv_local,
     adtv_usd |-> convert_to_usd(inp.adtv_local, fx_rate),
     adtv_usd_display |->
         format_adtv(Dollars(convert_to_usd(inp.adtv_local, fx_rate))),
     fx_rate_used |-> IF fx_rate # None THEN Some(fx_rate[1].rate) ELSE None,
     source |-> inp.source,
     source_url |-> inp.source_url,
     source_timestamp |-> OrNow(inp.source_timestamp)]

\* lines 154-165
AuditRecord(inp, currency, fx_rate) ==
    [exchange |-> inp.exchange,
     input_local_currency |-> currency,
     input_market_cap |-> inp.market_cap_local,
     input_adtv |-> inp.adtv_local,
     input_ytd_percent |-> inp.ytd_percent,
     fx_rate |-> IF fx_rate # None THEN Some(fx_rate[1].rate) ELSE None,
     fx_source |-> IF fx_rate # None THEN fx_rate[1].source ELSE "N/A",
     output_market_cap_usd |-> convert_to_usd(inp.market_cap_local, fx_rate),
     output_adtv_usd |-> convert_to_usd(inp.adtv_local, fx_rate),
     missing_fields |-> MissingFields(inp, currency, fx_rate)]

-----------------------------------------------------------------------------
(* Inputs *)

\* entries of DEFAULT_EXCHANGES / OPTIONAL_EXCHANGES, one per currency
ExchangeTemplates ==
    { [region |-> "USA", exchange |-> "NYSE",
       index_name |-> "NYSE Composite", local_currency |-> "USD"],
      [region |-> "Kuwait", exchange |-> "Boursa Kuwait",
       index_name |-> "Premier Market Index", local_currency |-> "KWD"],
      [region |-> "Germany", exchange |-> "XETRA",
       index_name |-> "DAX", local_currency |-> "EUR"] }

\* (ytd_percent, market_cap_local, adtv_local) of a record: every field is
\* missing in some and present in others, and any two fields differ in one
Payloads ==
    { <<Some(5), Some(2), Some(3)>>,
      <<None, Some(0), Some(3)>>,
      <<Some(0), None, Some(3)>>,
      <<None, None, None>> }

\* (source, source_url, source_timestamp) of a record: a complete record was
\* fetched from the web at a known time, a record without a YTD came from a
\* CSV upload, the others were typed in (app.py lines 387 and 444 leave the
\* URL and the timestamp at their default None)
ProvenanceOf(p) ==
    IF p[1] # None /\ p[2] # None /\ p[3] # None
    THEN [source |-> "web", source_url |-> Some("https://exchange.example"),
          source_timestamp |-> Some("retrieved")]
    ELSE IF p[1] = None /\ p[2] # None
    THEN [source |-> "csv_upload", source_url |-> None,
          source_timestamp |-> None]
    ELSE [source |-> "manual", source_url |-> None, source_timestamp |-> None]

\* ExchangeInput
ExchangeInputs ==
    { [region |-> t.region, exchange |-> t.exchange,
       index_name |-> t.index_name, local_currency |-> t.local_currency,
       ytd_percent |-> p[1], market_cap_local |-> p[2], adtv_local |-> p[3],
       source |-> ProvenanceOf(p).source,
       source_url |-> ProvenanceOf(p).source_url,
       source_timestamp |-> ProvenanceOf(p).source_timestamp] :
      t \in ExchangeTemplates, p \in Payloads }

InputLists == UNION { [1..n -> ExchangeInputs] : n \in 0..MaxInputs }

\* lists of distinct currencies
DistinctLists(S, n) ==
    { s \in UNION { [1..k -> S] : k \in 0..n } :
        \A i, j \in 1..Len(s) : s[i] = s[j] => i = j }

\* manual_rates of a Manual configuration
ManualRateMaps ==
    { EmptyTable,
      ("KWD" :> 32500),
      ("KWD" :> 32500) @@ ("EUR" :> 10800) @@ ("USD" :> 9000),
      ("KWD" :> 0) @@ ("EUR" :> 10800) }

\* average_fx_data of an Average configuration: a dated rate series.
\* SeriesA: KWDUSD on every day, EURUSD on day 3 only
SeriesA ==
    [has_date |-> TRUE, columns |-> {"KWDUSD", "EURUSD"},
     rows |-> << [date |-> 1, vals |-> [KWDUSD |-> Some(32400), EURUSD |-> None]],
                 [date |-> 2, vals |-> [KWDUSD |-> Some(32600), EURUSD |-> None]],
                 [date |-> 3, vals |-> [KWDUSD |-> Some(33000), EURUSD |-> Some(10800)]] >>]

\* SeriesB: a KWDUSD of zero and a USDUSD column
SeriesB ==
    [has_date |-> TRUE, columns |-> {"KWDUSD", "USDUSD"},
     rows |-> << [date |-> 2, vals |-> [KWDUSD |-> Some(0), USDUSD |-> Some(10000)]] >>]

\* SeriesNoDate: no 'date' column
SeriesNoDate ==
    [has_date |-> FALSE, columns |-> {"KWDUSD"},
     rows |-> << [date |-> 1, vals |-> [KWDUSD |-> Some(32400)]] >>]

AverageTables == {SeriesA, SeriesB, SeriesNoDate}

PipelineAverageTables == {SeriesA, SeriesB}

\* (start_date, end_date): two windows with rows in them, one with none
DateRanges == { <<1, 2>>, <<3, 3>>, <<4, 5>> }

\* DateRange of a compute_exchange_outputs call
PipelineDateRanges == { <<1, 2>>, <<3, 3>> }

LiveSources == {PrimarySource, "frankfurter.app"}

\* FXConfiguration: the fields of the other modes keep their defaults, as
\* in app.py.  Live and Manual mode read the output currency through == and
\* .value only, which do not tell a Currency member from its string, so
\* only Average mode is given both.
ConfigsOf(outs, sources, tables) ==
    { [mode |-> "live_spot", output_currency |-> [code |-> o, is_enum |-> TRUE],
       manual_rates |-> EmptyTable, average_fx_data |-> None,
       live_fx_source |-> src] :
      o \in outs, src \in sources }
    \cup
    { [mode |-> "manual", output_currency |-> [code |-> o, is_enum |-> TRUE],
       manual_rates |-> m, average_fx_data |-> None,
       live_fx_source |-> PrimarySource] :
      o \in OutputCodes, m \in ManualRateMaps }
    \cup
    { [mode |-> "average", output_currency |-> [code |-> o, is_enum |-> e],
       manual_rates |-> EmptyTable, average_fx_data |-> d,
       live_fx_source |-> PrimarySource] :
      o \in OutputCodes, e \in BOOLEAN,
      d \in {None} \cup { Some(t) : t \in tables } }

\* the configurations of a direct get_fx_rates call
Configs == ConfigsOf(OutputCodes, LiveSources, AverageTables)

\* the configurations of a compute_exchange_outputs call: the Live
\* configuration is the one app.py builds (Currency.USD, exchangerate.host)
PipelineConfigs == ConfigsOf({"USD"}, {PrimarySource}, PipelineAverageTables)

-----------------------------------------------------------------------------
(* The calls *)

InitCommon ==
    /\ idx = 1
    /\ rates = EmptyTable
    /\ errors = <<>>
    /\ status = Status("", <<>>, 0)
    /\ calls = <<>>
    /\ outputs = <<>>
    /\ audit_records = <<>>
    /\ insights = <<>>

\* compute_exchange_outputs(inputs, fx_config, date_range)
InitCompute ==
    /\ entry = "compute"
    /\ inputs \in InputLists
    /\ config \in PipelineConfigs
    /\ InitCommon
    /\ date_range \in { Some(d) : d \in PipelineDateRanges }
    /\ (config.mode # "average" \/ config.average_fx_data = None
           => date_range = Some(<<1, 2>>))
    /\ required_currencies = <<>>
    /\ pc = "required"

\* get_fx_rates(config, required_currencies, date_range)
InitFx ==
    /\ entry = "fx"
    /\ inputs = <<>>
    /\ config \in Configs
    /\ InitCommon
    /\ date_range \in {None} \cup { Some(d) : d \in DateRanges }
    /\ (config.mode # "average" => date_range = None)
    /\ (config.average_fx_data = None => date_range \in {None, Some(<<1, 2>>)})
    /\ required_currencies \in DistinctLists(Currencies, MaxRequired)
    /\ pc = "fx"

\* where get_fx_rates returns to
AfterFx == IF entry = "compute" THEN "convert" ELSE "done"

\* compute.py lines 98-101: list(set(...)), in the order the set iterates
RequiredCurrencies ==
    /\ pc = "required"
    /\ LET S == { inputs[i].local_currency : i \in 1..Len(inputs) }
       IN  \E s \in DistinctLists(S, Cardinality(S)) :
              /\ Len(s) = Cardinality(S)
              /\ required_currencies' = s
    /\ pc' = "fx"
    /\ UNCHANGED <<insights, entry, inputs, config, date_range, idx, rates, errors,
                   status, calls, outputs, audit_records>>

\* get_live_fx_rates: one pass of the loop of lines 41-105
LiveIteration ==
    /\ pc = "fx"
    /\ config.mode = "live_spot"
    /\ idx <= Len(required_currencies)
    /\ LET currency == required_currencies[idx]
           quote == ValueOf(config.output_currency)
       IN  IF currency = quote
           THEN /\ rates' = Put(rates, currency,
                                FXRate(currency, quote, IdentityRate, "identity"))
                /\ idx' = idx + 1
                /\ UNCHANGED <<pc, errors, calls>>
           ELSE \E pa \in PrimaryAnswers, sa \in SecondaryAnswers :
                  LET r == LiveLookup(currency, config.live_fx_source, pa, sa)
                  IN  /\ calls' = calls \o r.calls
                      /\ errors' = errors \o r.errs
                      /\ IF r.raised
                         THEN /\ pc' = "raised"
                              /\ UNCHANGED <<idx, rates>>
                         ELSE IF r.rate = None
                         THEN /\ idx' = idx + 1
                              /\ UNCHANGED <<pc, rates>>
                         ELSE IF FXRateValid(currency, r.rate[1])
                         THEN /\ rates' = Put(rates, currency,
                                     FXRate(currency, quote, r.rate[1],
                                            r.used_source))
                              /\ idx' = idx + 1
                              /\ UNCHANGED pc
                         ELSE /\ pc' = "raised"
                              /\ UNCHANGED <<idx, rates>>
    /\ UNCHANGED <<insights, entry, inputs, config, date_range, required_currencies,
                   status, outputs, audit_records>>

\* get_live_fx_rates: lines 107-108
LiveReturn ==
    /\ pc = "fx"
    /\ config.mode = "live_spot"
    /\ idx > Len(required_currencies)
    /\ status' = LiveStatus(errors)
    /\ pc' = AfterFx
    /\ idx' = 1
    /\ UNCHANGED <<insights, entry, inputs, config, date_range, required_currencies,
                   rates, errors, calls, outputs, audit_records>>

\* get_fx_rates: the Manual branch, lines 194-216
ManualReturn ==
    /\ pc = "fx"
    /\ config.mode = "manual"
    /\ LET r == ManualLoop(config, required_currencies, EmptyTable)
       IN  IF r.raised
           THEN /\ pc' = "raised"
                /\ UNCHANGED <<rates, status>>
           ELSE /\ rates' = r.rates
                /\ status' = ManualStatus(required_currencies, r.rates)
                /\ pc' = AfterFx
    /\ UNCHANGED <<insights, entry, inputs, config, date_range, required_currencies,
                   idx, errors, calls, outputs, audit_records>>

\* get_fx_rates: the Average branch, lines 218-257
AverageReturn ==
    /\ pc = "fx"
    /\ config.mode = "average"
    /\ LET r == AverageRates(config, required_currencies, date_range)
       IN  IF r.raised
           THEN /\ pc' = "raised"
                /\ UNCHANGED <<rates, status>>
           ELSE /\ rates' = r.rates
                /\ status' = r.status
                /\ pc' = AfterFx
    /\ UNCHANGED <<insights, entry, inputs, config, date_range, required_currencies,
                   idx, errors, calls, outputs, audit_records>>

\* C3 mutant: the records put at the front of the lists
ConvertRecordPrepend ==
    /\ pc = "convert"
    /\ idx <= Len(inputs)
    /\ LET inp == inputs[idx]
           currency == inp.local_currency
           fx_rate == Get(rates, currency)
       IN  /\ outputs' = <<ExchangeOutput(inp, currency, fx_rate)>> \o outputs
           /\ audit_records' =
                  <<AuditRecord(inp, currency, fx_rate)>> \o audit_records
    /\ idx' = idx + 1
    /\ UNCHANGED <<insights, entry, inputs, config, date_range, required_currencies,
                   pc, rates, errors, status, calls>>

\* C13 mutant: the rate of the record's currency taken out of the table
\* once the record is converted
ConvertRecordPopRate ==
    /\ pc = "convert"
    /\ idx <= Len(inputs)
    /\ LET inp == inputs[idx]
           currency == inp.local_currency
           fx_rate == Get(rates, currency)
       IN  /\ outputs' = Append(outputs, ExchangeOutput(inp, currency, fx_rate))
           /\ audit_records' =
                  Append(audit_records, AuditRecord(inp, currency, fx_rate))
           /\ rates' = [c \in DOMAIN rates \ {currency} |-> rates[c]]
    /\ idx' = idx + 1
    /\ UNCHANGED <<insights, entry, inputs, config, date_range, required_currencies,
                   pc, errors, status, calls>>

\* compute_exchange_outputs: one pass of the loop of lines 113-166
ConvertRecord ==
    /\ pc = "convert"
    /\ idx <= Len(inputs)
    /\ LET inp == inputs[idx]
           currency == inp.local_currency
           fx_rate == Get(rates, currency)
       IN  /\ outputs' = Append(outputs, ExchangeOutput(inp, currency, fx_rate))
           /\ audit_records' =
                  Append(audit_records, AuditRecord(inp, currency, fx_rate))
    /\ idx' = idx + 1
    /\ UNCHANGED <<insights, entry, inputs, config, date_range, required_currencies,
                   pc, rates, errors, status, calls>>

\* compute_exchange_outputs: line 168
Return ==
    /\ pc = "convert"
    /\ idx > Len(inputs)
    /\ pc' = "done"
    /\ UNCHANGED <<insights, entry, inputs, config, date_range, required_currencies,
                   idx, rates, errors, status, calls, outputs, audit_records>>

Next ==
    \/ RequiredCurrencies
    \/ LiveIteration
    \/ LiveReturn
    \/ ManualReturn
    \/ AverageReturn
    \/ ConvertRecord
    \/ Return

\* a call of compute_exchange_outputs, or a direct call of get_fx_rates
Init == InitCompute \/ InitFx

Spec == Init /\ [][Next]_vars

-----------------------------------------------------------------------------
(* generate_insights *)

\* the insights are modelled by the rule that made them and the names and
\* numbers their text is built from.  YTD values are in tenths of a percent,
\* shares in tenths of a percent, regional means in hundredths.

\* spread > 10 (percentage points), in tenths
SpreadThreshold == 100
\* * 100 * 252: the annualisation of the turnover
TradingDays == 252
\* turnover_pct < 500
TurnoverLimit == 500
\* len(insights) < 4
MinInsights == 4
\* insights[:6]
MaxInsights == 6

\* f"{x:.1f}" and the like: a / b rounded to the nearest integer (a >= 0,
\* b > 0; the values of the model put no quotient half-way)
RoundDiv(a, b) == (2 * a + b) \div (2 * b)

\* [o for o in outputs if o.ytd_percent is not None], and the like
YtdValid(outs) == SelectSeq(outs, LAMBDA o : o.ytd_percent # None)

CapValid(outs) == SelectSeq(outs, LAMBDA o : o.market_cap_usd # None)

AdtvValid(outs) == SelectSeq(outs, LAMBDA o : o.adtv_usd # None)

\* key(o), the key being the value of a field
KeyOf(o, key) == o[key][1]

\* max(seq, key=...): the first element whose key no other exceeds
MaxBy(seq, key) ==
    seq[CHOOSE i \in 1..Len(seq) :
            /\ \A j \in 1..Len(seq) : KeyOf(seq[j], key) <= KeyOf(seq[i], key)
            /\ \A j \in 1..(i - 1) : KeyOf(seq[j], key) < KeyOf(seq[i], key)]

\* min(seq, key=...): the first element whose key is no more than any other
MinBy(seq, key) ==
    seq[CHOOSE i \in 1..Len(seq) :
            /\ \A j \in 1..Len(seq) : KeyOf(seq[j], key) >= KeyOf(seq[i], key)
            /\ \A j \in 1..(i - 1) : KeyOf(seq[j], key) > KeyOf(seq[i], key)]

Ytd(o) == o.ytd_percent[1]

Cap(o) == o.market_cap_usd[1]

Adtv(o) == o.adtv_usd[1]

\* C18 mutant: the last of the records with the highest YTD, and "leads"
\* only above zero
YtdLeaderLastMax(outs) ==
    LET ytd_valid == YtdValid(outs)
    IN  IF ytd_valid = <<>> THEN <<>>
        ELSE LET best_ytd ==
                     ytd_valid[CHOOSE i \in 1..Len(ytd_valid) :
                         /\ \A j \in 1..Len(ytd_valid) :
                               Ytd(ytd_valid[j]) <= Ytd(ytd_valid[i])
                         /\ \A j \in (i + 1)..Len(ytd_valid) :
                               Ytd(ytd_valid[j]) < Ytd(ytd_valid[i])]
             IN  << [rule |-> "ytd_leader",
                     phrase |-> IF Ytd(best_ytd) > 0
                                THEN "leads in YTD performance"
                                ELSE "declining the least",
                     exchange |-> best_ytd.exchange,
                     value |-> Ytd(best_ytd)] >>

\* lines 72-90: the YTD performance leader
YtdLeader(outs) ==
    LET ytd_valid == YtdValid(outs)
    IN  IF ytd_valid = <<>> THEN <<>>
        ELSE LET best_ytd == MaxBy(ytd_valid, "ytd_percent")
             IN  << [rule |-> "ytd_leader",
                     phrase |-> IF Ytd(best_ytd) >= 0
                                THEN "leads in YTD performance"
                                ELSE "declining the least",
                     exchange |-> best_ytd.exchange,
                     value |-> Ytd(best_ytd)] >>

\* C19 mutant: a spread of exactly 10 points reported too
SpreadAtLeast(outs) ==
    LET ytd_valid == YtdValid(outs)
    IN  IF Len(ytd_valid) < 2 THEN <<>>
        ELSE LET best_ytd == MaxBy(ytd_valid, "ytd_percent")
                 worst_ytd == MinBy(ytd_valid, "ytd_percent")
                 spread == Ytd(best_ytd) - Ytd(worst_ytd)
             IN  IF spread >= SpreadThreshold
                 THEN << [rule |-> "spread", spread |-> spread,
                          best |-> best_ytd.exchange,
                          worst |-> worst_ytd.exchange] >>
                 ELSE <<>>

\* lines 92-99: the performance spread
Spread(outs) ==
    LET ytd_valid == YtdValid(outs)
    IN  IF Len(ytd_valid) < 2 THEN <<>>
        ELSE LET best_ytd == MaxBy(ytd_valid, "ytd_percent")
                 worst_ytd == MinBy(ytd_valid, "ytd_percent")
                 spread == Ytd(best_ytd) - Ytd(worst_ytd)
             IN  IF spread > SpreadThreshold
                 THEN << [rule |-> "spread", spread |-> spread,
                          best |-> best_ytd.exchange,
                          worst |-> worst_ytd.exchange] >>
                 ELSE <<>>

RECURSIVE SumCaps(_)
SumCaps(seq) == IF seq = <<>> THEN 0 ELSE Cap(Head(seq)) + SumCaps(Tail(seq))

\* C20 mutant: the share taken of the largest and the smallest cap only
DominanceOfTwo(outs) ==
    LET cap_valid == CapValid(outs)
    IN  IF cap_valid = <<>> THEN <<>>
        ELSE LET largest == MaxBy(cap_valid, "market_cap_usd")
                 total_cap ==
                     Cap(largest) + Cap(MinBy(cap_valid, "market_cap_usd"))
             IN  IF total_cap > 0
                 THEN << [rule |-> "dominance", exchange |-> largest.exchange,
                          value |-> Cap(largest),
                          share |-> RoundDiv(Cap(largest) * 1000, total_cap)] >>
                 ELSE <<>>

\* lines 102-114: market cap dominance (a cap of zero adds nothing to the
\* sum, so leaving it out of the sum changes nothing)
Dominance(outs) ==
    LET cap_valid == CapValid(outs)
    IN  IF cap_valid = <<>> THEN <<>>
        ELSE LET total_cap == SumCaps(cap_valid)
                 largest == MaxBy(cap_valid, "market_cap_usd")
             IN  IF total_cap > 0
                 THEN << [rule |-> "dominance", exchange |-> largest.exchange,
                          value |-> Cap(largest),
                          share |-> RoundDiv(Cap(largest) * 1000, total_cap)] >>
                 ELSE <<>>

\* turnover_pct < 500 taken on the exact quotient
TurnoverShownExact(adtv, cap) == adtv * 100 * TradingDays < TurnoverLimit * cap

\* turnover_pct < 500, turnover_pct being the double (adtv / cap) * 100 * 252.
\* A quotient of exactly 5/252 rounds down to 0.01984126984126984 and its
\* product to 499.99999999999994, and the next double up gives
\* 500.00000000000006: no quotient gives 500.0, and an estimate of exactly
\* 500 passes the test.
TurnoverShown(adtv, cap) == adtv * 100 * TradingDays <= TurnoverLimit * cap

\* lines 117-135: liquidity; the turnover is in the text when the test holds
Liquidity(outs) ==
    LET adtv_valid == AdtvValid(outs)
    IN  IF adtv_valid = <<>> THEN <<>>
        ELSE LET highest_adtv == MaxBy(adtv_valid, "adtv_usd")
                 cap == highest_adtv.market_cap_usd
             IN  IF CapValid(outs) # <<>> /\ cap # None /\ cap[1] # 0
                 THEN << [rule |-> "liquidity",
                          phrase |-> "shows the highest liquidity",
                          exchange |-> highest_adtv.exchange,
                          value |-> Adtv(highest_adtv),
                          turnover |->
                              IF TurnoverShown(Adtv(highest_adtv), cap[1])
                              THEN Some(RoundDiv(Adtv(highest_adtv) * 100
                                                     * TradingDays, cap[1]))
                              ELSE None] >>
                 ELSE << [rule |-> "liquidity",
                          phrase |-> "leads in liquidity",
                          exchange |-> highest_adtv.exchange,
                          value |-> Adtv(highest_adtv),
                          turnover |-> None] >>

\* sorted(seq, key=...): stable, ascending
SortedBy(seq, key) ==
    [k \in 1..Len(seq) |->
        seq[CHOOSE i \in 1..Len(seq) :
                Cardinality({ j \in 1..Len(seq) :
                    \/ KeyOf(seq[j], key) < KeyOf(seq[i], key)
                    \/ KeyOf(seq[j], key) = KeyOf(seq[i], key) /\ j < i }) = k - 1]]

\* sorted(seq, key=..., reverse=True): stable, descending
SortedByReverse(seq, key) ==
    [k \in 1..Len(seq) |->
        seq[CHOOSE i \in 1..Len(seq) :
                Cardinality({ j \in 1..Len(seq) :
                    \/ KeyOf(seq[j], key) > KeyOf(seq[i], key)
                    \/ KeyOf(seq[j], key) = KeyOf(seq[i], key) /\ j < i }) = k - 1]]

\* C22 mutant: the lower of the two middle keys of an even number
MedianLower(seq, key) ==
    KeyOf(SortedBy(seq, key)[((Len(seq) - 1) \div 2) + 1], key)

\* sorted(...)[len(seq) // 2] of the keys
Median(seq, key) ==
    KeyOf(SortedBy(seq, key)[(Len(seq) \div 2) + 1], key)

\* lines 138-158: a cap at or above the median with a YTD below the median
Divergence(outs) ==
    IF YtdValid(outs) = <<>> \/ CapValid(outs) = <<>> THEN <<>>
    ELSE LET median_cap == Median(CapValid(outs), "market_cap_usd")
             median_ytd == Median(YtdValid(outs), "ytd_percent")
             divergent ==
                 SelectSeq(outs, LAMBDA o :
                     /\ o.market_cap_usd # None
                     /\ o.ytd_percent # None
                     /\ Cap(o) >= median_cap
                     /\ Ytd(o) < median_ytd)
         IN  IF divergent = <<>> THEN <<>>
             ELSE << [rule |-> "divergence",
                      exchange |-> divergent[1].exchange,
                      value |-> Cap(divergent[1]),
                      ytd |-> Ytd(divergent[1])] >>

\* lines 163-169: small_caps & top_performers, a set of exchange names
Outperformers(outs) ==
    IF YtdValid(outs) = <<>> \/ Len(CapValid(outs)) < 3 THEN {}
    ELSE LET cap_sorted == SortedBy(CapValid(outs), "market_cap_usd")
             ytd_sorted == SortedByReverse(YtdValid(outs), "ytd_percent")
             small_caps ==
                 { cap_sorted[i].exchange :
                     i \in 1..((Len(cap_sorted) \div 3) + 1) }
             top_performers ==
                 { ytd_sorted[i].exchange :
                     i \in 1..((Len(ytd_sorted) \div 3) + 1) }
         IN  small_caps \cap top_performers

\* lines 170-176, for the exchange that list(outperformers)[:1] holds
SmallCap(outs, exchange) ==
    LET ex_obj == outs[CHOOSE i \in 1..Len(outs) :
                          /\ outs[i].exchange = exchange
                          /\ \A j \in 1..(i - 1) : outs[j].exchange # exchange]
    IN  << [rule |-> "small_cap", exchange |-> exchange,
            value |-> ex_obj.ytd_percent] >>

\* lines 179-184: the regions, in the order the records name them
RECURSIVE Regions(_, _)
Regions(outs, seen) ==
    IF outs = <<>> THEN <<>>
    ELSE (IF Head(outs).region \in seen THEN <<>> ELSE <<Head(outs).region>>)
         \o Regions(Tail(outs), seen \cup {Head(outs).region})

RECURSIVE SumYtd(_)
SumYtd(seq) == IF seq = <<>> THEN 0 ELSE Ytd(Head(seq)) + SumYtd(Tail(seq))

\* C24 mutant: the YTD values of a region summed, not averaged
RegionalYtdTotals(outs) ==
    LET of(r) == SelectSeq(outs, LAMBDA o : o.region = r /\ o.ytd_percent # None)
        with == SelectSeq(Regions(outs, {}), LAMBDA r : of(r) # <<>>)
    IN  [k \in 1..Len(with) |->
            [region |-> with[k], sum |-> SumYtd(of(with[k])), n |-> 1]]

\* lines 188-192: regional_ytd, in the order of the regions: the sum and the
\* number of the YTD values of every region that has one
RegionalYtd(outs) ==
    LET of(r) == SelectSeq(outs, LAMBDA o : o.region = r /\ o.ytd_percent # None)
        with == SelectSeq(Regions(outs, {}), LAMBDA r : of(r) # <<>>)
    IN  [k \in 1..Len(with) |->
            [region |-> with[k], sum |-> SumYtd(of(with[k])),
             n |-> Len(of(with[k]))]]

\* lines 186-200: the region with the highest mean YTD, when positive
Regional(outs) ==
    LET regional_ytd == RegionalYtd(outs)
    IN  IF Len(Regions(outs, {})) < 2 \/ Len(regional_ytd) < 2 THEN <<>>
        ELSE LET b == CHOOSE i \in 1..Len(regional_ytd) :
                        /\ \A j \in 1..Len(regional_ytd) :
                              regional_ytd[j].sum * regional_ytd[i].n
                                  <= regional_ytd[i].sum * regional_ytd[j].n
                        /\ \A j \in 1..(i - 1) :
                              regional_ytd[j].sum * regional_ytd[i].n
                                  < regional_ytd[i].sum * regional_ytd[j].n
                 best_region == regional_ytd[b]
             IN  IF best_region.sum > 0
                 THEN << [rule |-> "regional", region |-> best_region.region,
                          value |-> RoundDiv(best_region.sum * 10,
                                             best_region.n)] >>
                 ELSE <<>>

\* C25 mutant: the currency note, when up to 4 insights were made
CurrencyNoteUpToFour(outs, made) ==
    LET currencies == { outs[i].local_currency : i \in 1..Len(outs) }
    IN  IF Len(made) <= MinInsights /\ Cardinality(currencies) > 1
        THEN << [rule |-> "currency_note", count |-> Cardinality(currencies),
                 currencies |-> currencies] >>
        ELSE <<>>

\* lines 203-210: the currency note, when fewer than 4 insights were made
CurrencyNote(outs, made) ==
    LET currencies == { outs[i].local_currency : i \in 1..Len(outs) }
    IN  IF Len(made) < MinInsights /\ Cardinality(currencies) > 1
        THEN << [rule |-> "currency_note", count |-> Cardinality(currencies),
                 currencies |-> currencies] >>
        ELSE <<>>

\* C17 mutant: only the records without a YTD counted
CompletenessYtdOnly(outs) ==
    LET missing_count == Len(SelectSeq(outs, LAMBDA o : o.ytd_percent = None))
    IN  IF missing_count > 0
        THEN << [rule |-> "completeness", count |-> missing_count] >>
        ELSE <<>>

\* lines 213-218: the data quality note
Completeness(outs) ==
    LET missing_count ==
            Len(SelectSeq(outs, LAMBDA o :
                    o.ytd_percent = None \/ o.market_cap_usd = None))
    IN  IF missing_count > 0
        THEN << [rule |-> "completeness", count |-> missing_count] >>
        ELSE <<>>

\* C16 mutant: one insight more kept
TruncateOneMore(made) ==
    SubSeq(made, 1, IF Len(made) < MaxInsights + 1 THEN Len(made)
                    ELSE MaxInsights + 1)

\* insights[:6]
Truncate(made) ==
    SubSeq(made, 1, IF Len(made) < MaxInsights THEN Len(made) ELSE MaxInsights)

\* the exchanges of DEFAULT_EXCHANGES and OPTIONAL_EXCHANGES, in their order
ExchangeList ==
    << [region |-> "UAE", exchange |-> "DFM", local_currency |-> "AED"],
       [region |-> "UAE", exchange |-> "ADX", local_currency |-> "AED"],
       [region |-> "Saudi Arabia", exchange |-> "Tadawul", local_currency |-> "SAR"],
       [region |-> "Kuwait", exchange |-> "Boursa Kuwait", local_currency |-> "KWD"],
       [region |-> "Qatar", exchange |-> "QSE", local_currency |-> "QAR"] >>

\* (ytd_percent, market_cap_usd, adtv_usd) of an output record
OutputPayloads ==
    { <<Some(160), Some(100), Some(1)>>,
      <<Some(50), Some(200), Some(3)>>,
      <<Some(0), Some(200), Some(1)>>,
      <<Some(-50), Some(100), Some(1)>>,
      <<Some(-50), Some(0), None>>,
      <<Some(50), None, Some(3)>>,
      <<Some(50), Some(252), Some(5)>>,
      <<None, Some(100), Some(1)>>,
      <<None, None, None>> }

\* the lists generate_insights is called on: the first n exchanges, each
\* with one of the payloads (the fields generate_insights reads)
OutputList(n, p) ==
    [i \in 1..n |->
        [region |-> ExchangeList[i].region,
         exchange |-> ExchangeList[i].exchange,
         local_currency |-> ExchangeList[i].local_currency,
         ytd_percent |-> p[i][1],
         market_cap_usd |-> p[i][2],
         adtv_usd |-> p[i][3]]]

\* generate_insights(outputs, year)
InitInsights ==
    /\ entry = "insights"
    /\ \E n \in 0..MaxOutputs :
          \E p \in [1..n -> OutputPayloads] : outputs = OutputList(n, p)
    /\ insights = <<>>
    /\ pc = "ytd_leader"
    /\ inputs = <<>>
    /\ config = None
    /\ date_range = None
    /\ required_currencies = <<>>
    /\ idx = 1
    /\ rates = EmptyTable
    /\ errors = <<>>
    /\ status = Status("", <<>>, 0)
    /\ calls = <<>>
    /\ audit_records = <<>>

\* what generate_insights leaves alone
InsightsFrame ==
    UNCHANGED <<entry, inputs, config, date_range, required_currencies, idx,
                rates, errors, status, calls, outputs, audit_records>>

InsightYtdLeader ==
    /\ pc = "ytd_leader"
    /\ insights' = insights \o YtdLeader(outputs)
    /\ pc' = "spread"
    /\ InsightsFrame

InsightSpread ==
    /\ pc = "spread"
    /\ insights' = insights \o Spread(outputs)
    /\ pc' = "dominance"
    /\ InsightsFrame

InsightDominance ==
    /\ pc = "dominance"
    /\ insights' = insights \o Dominance(outputs)
    /\ pc' = "liquidity"
    /\ InsightsFrame

InsightLiquidity ==
    /\ pc = "liquidity"
    /\ insights' = insights \o Liquidity(outputs)
    /\ pc' = "divergence"
    /\ InsightsFrame

InsightDivergence ==
    /\ pc = "divergence"
    /\ insights' = insights \o Divergence(outputs)
    /\ pc' = "small_cap"
    /\ InsightsFrame

\* list(outperformers)[:1]: the exchange the set iterates to first
InsightSmallCap ==
    /\ pc = "small_cap"
    /\ IF Outperformers(outputs) = {}
       THEN insights' = insights
       ELSE \E exchange \in Outperformers(outputs) :
               insights' = insights \o SmallCap(outputs, exchange)
    /\ pc' = "regional"
    /\ InsightsFrame

InsightRegional ==
    /\ pc = "regional"
    /\ insights' = insights \o Regional(outputs)
    /\ pc' = "currency_note"
    /\ InsightsFrame

InsightCurrencyNote ==
    /\ pc = "currency_note"
    /\ insights' = insights \o CurrencyNote(outputs, insights)
    /\ pc' = "completeness"
    /\ InsightsFrame

InsightCompleteness ==
    /\ pc = "completeness"
    /\ insights' = insights \o Completeness(outputs)
    /\ pc' = "truncate"
    /\ InsightsFrame

\* line 220
InsightsReturn ==
    /\ pc = "truncate"
    /\ insights' = Truncate(insights)
    /\ pc' = "returned"
    /\ InsightsFrame

NextInsights ==
    \/ InsightYtdLeader
    \/ InsightSpread
    \/ InsightDominance
    \/ InsightLiquidity
    \/ InsightDivergence
    \/ InsightSmallCap
    \/ InsightRegional
    \/ InsightCurrencyNote
    \/ InsightCompleteness
    \/ InsightsReturn

SpecInsights == InitInsights /\ [][NextInsights]_vars

-----------------------------------------------------------------------------
(* Properties *)

\* the reporting currency's code
Quote == ValueOf(config.output_currency)

\* the call has returned
Returned == pc = "done"

\* the lookups made for one currency, in order
CallsOf(c) == SelectSeq(calls, LAMBDA k : k.currency = c)

Required == { required_currencies[i] : i \in 1..Len(required_currencies) }

\* the status names the currency in one of its notes
StatusNames(c) == \E i \in 1..Len(status.items) : status.items[i][1] = c

\* get_fx_rates did not stop at a missing rate series or date range
AverageInputsPresent ==
    config.mode = "average" => (config.average_fx_data # None /\ date_range # None)

\* C1 (as claimed): in every mode, a required currency equal to the
\* reporting currency is in the returned table under its code, with rate 1.0
\* and source "identity", and no provider lookup was made for it.  (Stated
\* for the calls that do not stop at a missing rate series or date range.)
C1_IdentityInEveryMode ==
    (Returned /\ AverageInputsPresent /\ Quote \in Required)
        => /\ Quote \in DOMAIN rates
           /\ rates[Quote].rate = IdentityRate
           /\ rates[Quote].source = "identity"
           /\ CallsOf(Quote) = <<>>

\* the value convert_to_usd is to give for a record's local value
ConvertedValue(value, currency) ==
    IF value = None \/ currency \notin DOMAIN rates
    THEN None
    ELSE Some(value[1] * rates[currency].rate)

\* C2: every converted market cap and ADTV is absent when the local value
\* or the rate of the record's currency is absent, and is value * rate when
\* both are present; no record makes the call raise.
C2_AbsencePropagates ==
    /\ \A i \in 1..Len(outputs) :
          LET inp == inputs[i]
              cur == inp.local_currency
          IN  /\ outputs[i].market_cap_usd = ConvertedValue(inp.market_cap_local, cur)
              /\ outputs[i].adtv_usd = ConvertedValue(inp.adtv_local, cur)
              /\ audit_records[i].output_market_cap_usd = outputs[i].market_cap_usd
              /\ audit_records[i].output_adtv_usd = outputs[i].adtv_usd
    /\ (outputs # <<>> => pc # "raised")

\* C2 witness: a returned call with a record whose market cap is present
\* and unresolved (absent result), and a record with a resolved rate whose
\* market cap is absent (absent result) and whose ADTV was converted
C2_Witness ==
    /\ Returned
    /\ \E i \in 1..Len(outputs) :
          /\ inputs[i].market_cap_local # None
          /\ inputs[i].local_currency \notin DOMAIN rates
          /\ outputs[i].market_cap_usd = None
    /\ \E i \in 1..Len(outputs) :
          /\ inputs[i].local_currency \in DOMAIN rates
          /\ inputs[i].market_cap_local = None
          /\ outputs[i].market_cap_usd = None
          /\ outputs[i].adtv_usd # None
          /\ outputs[i].adtv_usd[1] > 0

\* C3: a returned call has one output and one audit record per input, the
\* i-th of each describing the i-th input.
C3_OnePerInputInOrder ==
    (Returned /\ entry = "compute")
        => /\ Len(outputs) = Len(inputs)
           /\ Len(audit_records) = Len(inputs)
           /\ \A i \in 1..Len(inputs) :
                 /\ outputs[i].exchange = inputs[i].exchange
                 /\ outputs[i].local_currency = inputs[i].local_currency
                 /\ audit_records[i].exchange = inputs[i].exchange
                 /\ audit_records[i].input_local_currency = inputs[i].local_currency

\* C3 witness: two different exchanges returned in input order, one with
\* its rate resolved and one without
C3_Witness ==
    /\ Returned
    /\ Len(inputs) = 2
    /\ Len(outputs) = 2
    /\ inputs[1].exchange # inputs[2].exchange
    /\ inputs[1].local_currency \notin DOMAIN rates
    /\ inputs[2].local_currency \in DOMAIN rates

\* the missing fields the claim describes for a record
ClaimedMissing(inp) ==
    (IF inp.ytd_percent = None THEN <<"ytd_percent">> ELSE <<>>)
    \o (IF inp.market_cap_local = None THEN <<"market_cap">> ELSE <<>>)
    \o (IF inp.adtv_local = None THEN <<"adtv">> ELSE <<>>)
    \o (IF inp.local_currency \notin DOMAIN rates /\ inp.local_currency # Quote
        THEN <<"fx_rate_" \o inp.local_currency>> ELSE <<>>)

InSeq(x, s) == \E k \in 1..Len(s) : s[k] = x

\* C4 (as claimed): every audit record's missing_fields is exactly the
\* null or unresolved fields, the FX rate counting when no rate was resolved
\* and the currency is not the reporting currency; so a record with a local
\* value present and its converted value absent lists the FX rate.
C4_MissingFieldsExact ==
    \A i \in 1..Len(audit_records) :
        /\ audit_records[i].missing_fields = ClaimedMissing(inputs[i])
        /\ (inputs[i].market_cap_local # None /\ outputs[i].market_cap_usd = None)
              => InSeq("fx_rate_" \o inputs[i].local_currency,
                       audit_records[i].missing_fields)

\* the place of a method in the order of resolution
MethodRank(m) == IF m = "primary" THEN 1 ELSE IF m = "secondary" THEN 2 ELSE 3

\* the source tag that names a method
MethodTag(m) ==
    IF m = "primary" THEN "exchangerate.host"
    ELSE IF m = "secondary" THEN "ECB via frankfurter.app"
    ELSE "static_pegged_rate"

Last(s) == s[Len(s)]

\* C5: in LiveSpot mode the lookups of a currency other than the reporting
\* currency go primary, secondary, static with none skipped; a lookup is
\* made only if every earlier one gave no rate; the stored rate is the one
\* the first successful lookup gave and the stored source names that method,
\* the static tag only after both live providers gave nothing.
C5_FixedResolutionOrder ==
    config.mode = "live_spot" =>
        \A c \in Currencies :
            LET k == CallsOf(c)
            IN  /\ c = Quote => k = <<>>
                /\ k # <<>> =>
                     /\ k[1].method =
                            (IF config.live_fx_source = "exchangerate.host"
                             THEN "primary" ELSE "secondary")
                     /\ \A i \in 1..(Len(k) - 1) :
                            /\ MethodRank(k[i + 1].method) = MethodRank(k[i].method) + 1
                            /\ k[i].got = None
                     /\ (Last(k).got = None => Last(k).method = "static")
                /\ (c \in DOMAIN rates /\ c # Quote) =>
                     /\ k # <<>>
                     /\ Last(k).got = Some(rates[c].rate)
                     /\ rates[c].source = MethodTag(Last(k).method)
                     /\ (rates[c].source = "static_pegged_rate" =>
                            /\ rates[c].rate = static_rates[c]
                            /\ \A i \in 1..(Len(k) - 1) : k[i].got = None)

\* C5 witness: one currency resolved by the static rate after both live
\* providers, another by the secondary provider after the primary
C5_Witness ==
    /\ Returned
    /\ config.mode = "live_spot"
    /\ \E c, d \in DOMAIN rates :
          /\ rates[c].source = "static_pegged_rate"
          /\ Len(CallsOf(c)) = 3
          /\ rates[d].source = "ECB via frankfurter.app"
          /\ Len(CallsOf(d)) = 2

\* C6: in LiveSpot mode the returned status is the success sentinel only if
\* every requested currency is in the returned table; a requested currency
\* without a rate is not in the table and the status is a list of notes with
\* one naming it.
C6_LiveStatus ==
    (Returned /\ config.mode = "live_spot") =>
        /\ (status.text = "All rates fetched successfully"
               => Required \subseteq DOMAIN rates)
        /\ \A c \in Required :
              c \notin DOMAIN rates
                 => /\ status.text = ""
                    /\ \E i \in 1..Len(status.items) :
                          status.items[i] = <<c, "Could not retrieve rate">>
        /\ DOMAIN rates \subseteq Required

\* C6 witness: a returned LiveSpot call with one currency resolved and one
\* left without a rate and named in the status
C6_Witness ==
    /\ Returned
    /\ config.mode = "live_spot"
    /\ \E c, d \in Required :
          /\ c \notin DOMAIN rates
          /\ StatusNames(c)
          /\ d \in DOMAIN rates
          /\ d # Quote

\* both live providers were asked for the currency and gave no rate
BothLiveFailed(c) ==
    /\ \E i \in 1..Len(calls) :
          calls[i] = Call(c, "primary", None)
    /\ \E i \in 1..Len(calls) :
          calls[i] = Call(c, "secondary", None)

\* the records priced in c have no converted value and list the FX rate
RecordsUnconverted(c) ==
    \A i \in 1..Len(inputs) :
        inputs[i].local_currency = c =>
            /\ outputs[i].market_cap_usd = None
            /\ outputs[i].adtv_usd = None
            /\ outputs[i].fx_rate_used = None
            /\ InSeq("fx_rate_" \o c, audit_records[i].missing_fields)

\* C7 (as claimed): in LiveSpot mode with both live providers failing for
\* KWD, KWD is not in the returned table, the status has a KWD note, and the
\* records priced in KWD have no converted value and list fx_rate_KWD.
C7_KwdUnresolved ==
    (Returned /\ entry = "compute" /\ config.mode = "live_spot"
       /\ BothLiveFailed("KWD"))
        => /\ "KWD" \notin DOMAIN rates
           /\ StatusNames("KWD")
           /\ RecordsUnconverted("KWD")

\* C7 (amended): in LiveSpot mode with both live providers failing for a
\* currency, a currency of the static table (KWD is one, at 3.25) is stored
\* at its static rate with source static_pegged_rate, the status notes the
\* fallback and its records are converted at that rate without listing the
\* FX rate; a currency outside the static table (EUR) is not in the returned
\* table, the status has its failure note, and its records have no converted
\* value and list its FX rate.
C7_BothLiveFail ==
    (Returned /\ entry = "compute" /\ config.mode = "live_spot") =>
        \A c \in Required :
            BothLiveFailed(c) =>
                IF c \in DOMAIN static_rates
                THEN /\ c \in DOMAIN rates
                     /\ rates[c].rate = static_rates[c]
                     /\ rates[c].source = "static_pegged_rate"
                     /\ InSeq(<<c, "Using static pegged rate (live fetch failed)">>,
                              status.items)
                     /\ \A i \in 1..Len(inputs) :
                           inputs[i].local_currency = c =>
                               /\ outputs[i].fx_rate_used = Some(static_rates[c])
                               /\ (inputs[i].market_cap_local # None
                                      => outputs[i].market_cap_usd # None)
                               /\ ~InSeq("fx_rate_" \o c,
                                         audit_records[i].missing_fields)
                ELSE /\ c \notin DOMAIN rates
                     /\ InSeq(<<c, "Could not retrieve rate">>, status.items)
                     /\ RecordsUnconverted(c)

\* C7 witness: both live providers failed for KWD and for EUR, and a record
\* of each with a market cap was returned
C7_Witness ==
    /\ Returned
    /\ entry = "compute"
    /\ config.mode = "live_spot"
    /\ BothLiveFailed("KWD")
    /\ BothLiveFailed("EUR")
    /\ \E i, j \in 1..Len(outputs) :
          /\ inputs[i].local_currency = "KWD"
          /\ inputs[i].market_cap_local # None
          /\ inputs[j].local_currency = "EUR"
          /\ inputs[j].market_cap_local # None

\* the currencies the LiveSpot loop has been through
Processed ==
    IF pc = "fx" THEN { required_currencies[i] : i \in 1..(idx - 1) }
    ELSE IF pc \in {"convert", "done"} THEN Required
    ELSE {}

\* C8: in LiveSpot mode a provider call that raises, times out or answers
\* without success never ends the resolution (only a rate FXRate rejects
\* does); the lookups are made one currency at a time, every currency the
\* loop has been through was looked up, and the rate and source stored for a
\* currency are those of its own last lookup.
C8_IndependentResolution ==
    config.mode = "live_spot" =>
        /\ pc = "raised" =>
              /\ calls # <<>>
              /\ Last(calls).got # None
              /\ Last(calls).got[1] <= 0
        /\ \A c \in Processed : c # Quote => CallsOf(c) # <<>>
        /\ \A i, j, k \in 1..Len(calls) :
              (i < j /\ j < k /\ calls[i].currency = calls[k].currency)
                  => calls[j].currency = calls[i].currency
        /\ \A c \in DOMAIN rates :
              c # Quote =>
                  /\ CallsOf(c) # <<>>
                  /\ Last(CallsOf(c)).got = Some(rates[c].rate)
                  /\ rates[c].source = MethodTag(Last(CallsOf(c)).method)

\* C8 witness: the first currency's provider calls raised and it was left
\* without a rate, and the second was then resolved by the primary provider
C8_Witness ==
    /\ Returned
    /\ config.mode = "live_spot"
    /\ Len(required_currencies) = 2
    /\ required_currencies[1] \notin DOMAIN rates
    /\ InSeq(<<required_currencies[1], "exchangerate.host failed">>, errors)
    /\ InSeq(<<required_currencies[1], "frankfurter.app failed">>, errors)
    /\ required_currencies[2] \in DOMAIN rates
    /\ rates[required_currencies[2]].source = "exchangerate.host"

\* C9: a returned Manual call maps the reporting currency to the identity
\* rate whatever the mapping holds for it, maps every other required
\* currency of the mapping to its mapped rate with source manual_entry,
\* leaves every other required currency out and names it in the status, and
\* says "Manual rates applied" exactly when none is left out.
C9_ManualRates ==
    (Returned /\ config.mode = "manual") =>
        /\ \A c \in Required :
              IF c = Quote
              THEN /\ c \in DOMAIN rates
                   /\ rates[c].rate = IdentityRate
                   /\ rates[c].source = "identity"
              ELSE IF c \in DOMAIN config.manual_rates
              THEN /\ c \in DOMAIN rates
                   /\ rates[c].rate = config.manual_rates[c]
                   /\ rates[c].source = "manual_entry"
              ELSE /\ c \notin DOMAIN rates
                   /\ StatusNames(c)
        /\ DOMAIN rates \subseteq Required
        /\ (status.text = "Manual rates applied"
               <=> \A c \in Required : c \in DOMAIN rates)
        /\ \A i \in 1..Len(status.items) :
              status.items[i][1] \in Required \ DOMAIN rates

\* C9 witness: the reporting currency has a manual rate and still gets the
\* identity rate, next to a currency resolved from the mapping
C9_Witness ==
    /\ Returned
    /\ config.mode = "manual"
    /\ Quote \in Required
    /\ Quote \in DOMAIN config.manual_rates
    /\ config.manual_rates[Quote] # IdentityRate
    /\ rates[Quote].source = "identity"
    /\ \E c \in Required : c # Quote /\ rates[c].source = "manual_entry"

\* C10: in Average mode without a rate series or without a date range,
\* get_fx_rates returns (it does not raise) an empty table and a non-empty
\* status, and compute_exchange_outputs returns one output and one audit
\* record per input, every converted value absent.
C10_AverageWithoutInputs ==
    (config.mode = "average" /\ pc \notin {"required", "fx"}
       /\ (config.average_fx_data = None \/ date_range = None))
        => /\ pc # "raised"
           /\ rates = EmptyTable
           /\ status.text # ""
           /\ (Returned /\ entry = "compute") =>
                 /\ Len(outputs) = Len(inputs)
                 /\ Len(audit_records) = Len(inputs)
                 /\ \A i \in 1..Len(outputs) :
                       /\ outputs[i].market_cap_usd = None
                       /\ outputs[i].adtv_usd = None
                       /\ outputs[i].fx_rate_used = None
                       /\ audit_records[i].output_market_cap_usd = None
                       /\ audit_records[i].output_adtv_usd = None

\* C10 witness: an Average call without a rate series over two records, one
\* of them in the reporting currency with a market cap
C10_Witness ==
    /\ Returned
    /\ entry = "compute"
    /\ config.mode = "average"
    /\ config.average_fx_data = None
    /\ Len(outputs) = 2
    /\ \E i \in 1..2 :
          /\ inputs[i].local_currency = Quote
          /\ inputs[i].market_cap_local # None
          /\ outputs[i].market_cap_usd = None

-----------------------------------------------------------------------------
(* Average mode over a dated series *)

\* the rate series and the window of an Average call that has both
Series == config.average_fx_data[1]

Window == date_range[1]

\* the rows of the series dated within [start, end], by position
WindowRows ==
    { i \in 1..Len(Series.rows) :
        Series.rows[i].date >= Window[1] /\ Series.rows[i].date <= Window[2] }

\* the in-window rows holding a value in the column
ValueRows(col) ==
    IF col \notin Series.columns THEN {}
    ELSE { i \in WindowRows : Series.rows[i].vals[col] # None }

RECURSIVE SumOver(_, _)
SumOver(S, col) ==
    IF S = {} THEN 0
    ELSE LET i == CHOOSE x \in S : TRUE
         IN  Series.rows[i].vals[col][1] + SumOver(S \ {i}, col)

\* the status names the column among its missing columns
StatusNamesColumn(col) ==
    \E i \in 1..Len(status.items) : status.items[i][1] = col

\* a returned Average call that had a rate series and a date range
AverageReturned ==
    /\ Returned
    /\ config.mode = "average"
    /\ config.average_fx_data # None
    /\ date_range # None

\* a required non-reporting currency with in-window values has their mean
\* as its rate, which is not zero
AverageIsMean(c) ==
    LET rows == ValueRows(ColumnOf(c))
    IN  rows # {} =>
           /\ c \in DOMAIN rates
           /\ rates[c].rate * Cardinality(rows) = SumOver(rows, ColumnOf(c))
           /\ rates[c].rate > 0
           /\ rates[c].source = AverageSource(Window)

\* C11 (as claimed): a returned Average call gives every required
\* non-reporting currency the mean of the in-window, non-missing values of
\* its column; a column that is absent or has no such value gives no rate
\* and is named as missing in the status.  (Stated for the series that have
\* a date column.)
C11_AverageNamesMissing ==
    (AverageReturned /\ Series.has_date) =>
        \A c \in Required \ {Quote} :
            /\ AverageIsMean(c)
            /\ ValueRows(ColumnOf(c)) = {} =>
                   /\ c \notin DOMAIN rates
                   /\ StatusNamesColumn(ColumnOf(c))

\* C11 (amended): as claimed when the series has a date column and a row in
\* the window, the status then counting the in-window rows and naming
\* exactly the columns without a rate; when the series has no date column
\* or no row in the window no currency gets a rate and the status says so
\* without naming a column.
C11_AverageOfWindow ==
    AverageReturned =>
        IF Series.has_date /\ WindowRows # {}
        THEN /\ status.text = "Calculated averages from days"
             /\ status.days = Cardinality(WindowRows)
             /\ \A c \in Required \ {Quote} :
                    /\ AverageIsMean(c)
                    /\ ValueRows(ColumnOf(c)) = {} => c \notin DOMAIN rates
                    /\ StatusNamesColumn(ColumnOf(c))
                           <=> ValueRows(ColumnOf(c)) = {}
             /\ \A i \in 1..Len(status.items) :
                    \E c \in Required \ {Quote} :
                        status.items[i][1] = ColumnOf(c)
        ELSE /\ \A c \in Required \ {Quote} : c \notin DOMAIN rates
             /\ status.items = <<>>
             /\ status.text = IF Series.has_date
                               THEN "No FX data found for date range"
                               ELSE "Error: 'date' column not found in FX data"

\* C11 witness: a window of two days of a three-day series, one currency
\* averaged over the two and another whose column holds no value in them
C11_Witness ==
    /\ AverageReturned
    /\ Cardinality(WindowRows) = 2
    /\ Cardinality(WindowRows) < Len(Series.rows)
    /\ \E c \in Required \ {Quote} :
           /\ Cardinality(ValueRows(ColumnOf(c))) = 2
           /\ c \in DOMAIN rates
    /\ \E c \in Required \ {Quote} :
           /\ ColumnOf(c) \in Series.columns
           /\ ValueRows(ColumnOf(c)) = {}
           /\ StatusNamesColumn(ColumnOf(c))

-----------------------------------------------------------------------------
(* Unusable rates *)

\* an Average call that reads a USDUSD column, whose key is not a currency
ReadsUsdColumn ==
    /\ config.mode = "average"
    /\ "USD" \in Required \ {Quote}

\* C12 (as claimed): get_fx_rates and compute_exchange_outputs never raise
\* because a candidate rate is not positive (a manual rate, a live answer or
\* an average that is <= 0): the currency is left out of the table and the
\* call goes on.
C12_UnusableRateNeverRaises ==
    ~ReadsUsdColumn => pc # "raised"

-----------------------------------------------------------------------------
(* One rate table per call *)

\* the conversion loop of compute_exchange_outputs has been entered
Converting == pc \in {"convert", "done"}

\* the rate and the source the table holds for a currency
TableRate(c) == IF c \in DOMAIN rates THEN Some(rates[c].rate) ELSE None

TableSource(c) == IF c \in DOMAIN rates THEN rates[c].source ELSE "N/A"

\* every record converted so far carries the table's entry for its currency
RecordsCarryTable ==
    /\ outputs # <<>> => Converting
    /\ \A i \in 1..Len(outputs) :
          LET cur == inputs[i].local_currency
          IN  /\ outputs[i].fx_rate_used = TableRate(cur)
              /\ audit_records[i].fx_rate = TableRate(cur)
              /\ audit_records[i].fx_source = TableSource(cur)
    /\ \A i, j \in 1..Len(outputs) :
          inputs[i].local_currency = inputs[j].local_currency
              => outputs[i].fx_rate_used = outputs[j].fx_rate_used

\* once the loop is entered the table, the status and the lookups made stay
\* as they are, and resolution is not entered again
TableFrozen ==
    Converting =>
        /\ rates' = rates
        /\ status' = status
        /\ calls' = calls
        /\ errors' = errors
        /\ pc' \in {"convert", "done"}

\* C13: within one compute_exchange_outputs call the rate table is resolved
\* once, before the first record is converted, and is neither changed nor
\* fetched again afterwards; every record's fx_rate_used and its audit
\* fx_rate and fx_source are the table's entry for the record's currency,
\* so two records in one currency are converted at the same rate.
C13_TableResolvedOnce ==
    [](entry = "compute" => RecordsCarryTable) /\ [][TableFrozen]_vars

\* C13 witness: a returned call whose two records are in one currency that
\* is not the reporting currency, both converted at the table's rate
C13_Witness ==
    /\ Returned
    /\ entry = "compute"
    /\ Len(outputs) = 2
    /\ inputs[1].local_currency = inputs[2].local_currency
    /\ inputs[1].local_currency # Quote
    /\ inputs[1].local_currency \in DOMAIN rates
    /\ outputs[1].fx_rate_used = Some(rates[inputs[1].local_currency].rate)
    /\ outputs[2].fx_rate_used = outputs[1].fx_rate_used

-----------------------------------------------------------------------------
(* Raw fields *)

\* the raw fields of a record other than its source timestamp
RawFieldsCarried(out, inp) ==
    /\ out.region = inp.region
    /\ out.exchange = inp.exchange
    /\ out.index_name = inp.index_name
    /\ out.local_currency = inp.local_currency
    /\ out.ytd_percent = inp.ytd_percent
    /\ out.market_cap_local = inp.market_cap_local
    /\ out.adtv_local = inp.adtv_local
    /\ out.source = inp.source
    /\ out.source_url = inp.source_url

\* C14 (as claimed): every output record carries every raw field of its
\* input record unchanged, the source timestamp included: an absent source
\* timestamp stays absent.
C14_RawFieldsUnchanged ==
    \A i \in 1..Len(outputs) :
        /\ RawFieldsCarried(outputs[i], inputs[i])
        /\ outputs[i].source_timestamp = inputs[i].source_timestamp

\* the time compute_exchange_outputs reads from the clock
Now == Some("utcnow")

\* C14 (amended): every output record carries region, exchange, index name,
\* local currency, YTD, local market cap, local ADTV, source tag and source
\* URL of its input record unchanged, and its source timestamp when there
\* is one; an absent source timestamp becomes the time of the call.  No
\* step of the call changes the input records.
C14_RawFieldsCarried ==
    /\ [](\A i \in 1..Len(outputs) :
            /\ RawFieldsCarried(outputs[i], inputs[i])
            /\ outputs[i].source_timestamp =
                   IF inputs[i].source_timestamp = None
                   THEN Now ELSE inputs[i].source_timestamp)
    /\ [][inputs' = inputs]_vars

\* C14 witness: a returned call with a record that has a source URL and a
\* source timestamp, and a CSV record that has neither
C14_Witness ==
    /\ Returned
    /\ \E i \in 1..Len(outputs) :
           /\ inputs[i].source_timestamp # None
           /\ inputs[i].source_url # None
           /\ outputs[i].source_timestamp = inputs[i].source_timestamp
    /\ \E i \in 1..Len(outputs) :
           /\ inputs[i].source = "csv_upload"
           /\ inputs[i].source_timestamp = None
           /\ outputs[i].source = "csv_upload"
           /\ outputs[i].source_timestamp = Now

-----------------------------------------------------------------------------
(* Determinism *)

\* the currencies of the input records, each once, in the order the
\* records name them
RECURSIVE InputOrder(_, _)
InputOrder(records, seen) ==
    IF records = <<>> THEN <<>>
    ELSE LET c == Head(records).local_currency
         IN  (IF c \in seen THEN <<>> ELSE <<c>>)
             \o InputOrder(Tail(records), seen \cup {c})

\* what get_fx_rates returns in Manual or Average mode when the required
\* currencies are handed to it in the given order
ResolvedIn(order) ==
    IF config.mode = "manual"
    THEN LET r == ManualLoop(config, order, EmptyTable)
         IN  [rates |-> r.rates, status |-> ManualStatus(order, r.rates)]
    ELSE LET r == AverageRates(config, order, date_range)
         IN  [rates |-> r.rates, status |-> r.status]

\* C15 (as claimed): the results of a run are a function of the inputs, the
\* configuration and the provider answers, and do not depend on the order
\* a set of currencies iterates in: a returned Manual or Average call (no
\* provider is asked) has the rate table and the status of the run that
\* takes the currencies in the order of the input records.
C15_IndependentOfSetOrder ==
    (Returned /\ entry = "compute" /\ config.mode \in {"manual", "average"})
        => /\ rates = ResolvedIn(InputOrder(inputs, {})).rates
           /\ status = ResolvedIn(InputOrder(inputs, {})).status

-----------------------------------------------------------------------------
(* generate_insights: the list returned *)

\* the place of a rule in the order the observations are generated in
RuleRank(rule) ==
    CASE rule = "ytd_leader" -> 1
      [] rule = "spread" -> 2
      [] rule = "dominance" -> 3
      [] rule = "liquidity" -> 4
      [] rule = "divergence" -> 5
      [] rule = "small_cap" -> 6
      [] rule = "regional" -> 7
      [] rule = "currency_note" -> 8
      [] rule = "completeness" -> 9

\* the insights of a list are of different rules, in generation order
InGenerationOrder(list) ==
    \A i, j \in 1..Len(list) :
        i < j => RuleRank(list[i].rule) < RuleRank(list[j].rule)

\* generate_insights has returned
InsightsReturned == pc = "returned"

\* the insights of a rule in the list
OfRule(rule) == SelectSeq(insights, LAMBDA x : x.rule = rule)

\* the step that returns keeps the first six of the observations generated
KeepsPrefix ==
    pc = "truncate" =>
        /\ Len(insights') = IF Len(insights) < 6 THEN Len(insights) ELSE 6
        /\ \A i \in 1..Len(insights') : insights'[i] = insights[i]

\* C16: generate_insights returns at most 6 insights, the first of the
\* observations in generation order (rule 1, spread, dominance, liquidity,
\* divergence, small-cap outperformer, regional average, currency note,
\* completeness note), every rule giving none or one.
C16_AtMostSixInOrder ==
    /\ [](/\ InGenerationOrder(insights)
          /\ InsightsReturned => Len(insights) <= 6)
    /\ [][KeepsPrefix]_vars

\* the records without a YTD or without a converted market cap
Incomplete ==
    { i \in 1..Len(outputs) :
        outputs[i].ytd_percent = None \/ outputs[i].market_cap_usd = None }

\* C16 witness: six insights returned, the observations after them cut off
\* (a record is incomplete and the completeness note is not among the six)
C16_Witness ==
    /\ InsightsReturned
    /\ Len(insights) = 6
    /\ Incomplete # {}
    /\ OfRule("completeness") = <<>>
    /\ insights[6].rule = "small_cap"

\* C17 (as claimed): the returned list holds the completeness note, with the
\* number of incomplete records, whenever a record is incomplete, and does
\* not hold it when none is.
C17_NoteWheneverIncomplete ==
    InsightsReturned =>
        IF Incomplete # {}
        THEN OfRule("completeness") =
                 << [rule |-> "completeness", count |-> Cardinality(Incomplete)] >>
        ELSE OfRule("completeness") = <<>>

\* C17 (amended): the completeness note, with the number of incomplete
\* records, is the last observation generated whenever a record is
\* incomplete, and none is generated when no record is; the returned list
\* holds it, as its last insight, unless six other observations came before
\* it.
C17_NoteUnlessCut ==
    /\ pc = "truncate" =>
           IF Incomplete # {}
           THEN /\ insights # <<>>
                /\ insights[Len(insights)] =
                       [rule |-> "completeness", count |-> Cardinality(Incomplete)]
                /\ Len(OfRule("completeness")) = 1
           ELSE OfRule("completeness") = <<>>
    /\ InsightsReturned =>
           IF Incomplete # {}
           THEN \/ /\ insights # <<>>
                   /\ insights[Len(insights)] =
                          [rule |-> "completeness",
                           count |-> Cardinality(Incomplete)]
                   /\ Len(OfRule("completeness")) = 1
                \/ /\ Len(insights) = 6
                   /\ OfRule("completeness") = <<>>
           ELSE OfRule("completeness") = <<>>

\* C17 witness: a returned list that ends with the note, counting two
\* incomplete records of three, one without a YTD and one without a cap
C17_Witness ==
    /\ InsightsReturned
    /\ Len(outputs) = 3
    /\ Cardinality(Incomplete) = 2
    /\ \E i \in Incomplete : outputs[i].ytd_percent # None
    /\ \E i \in Incomplete : outputs[i].market_cap_usd # None
    /\ insights[Len(insights)] = [rule |-> "completeness", count |-> 2]

-----------------------------------------------------------------------------
(* generate_insights: rules 1 to 3 *)

\* the records with a YTD, and those with a converted market cap
WithYtd == { i \in 1..Len(outputs) : outputs[i].ytd_percent # None }

WithCap == { i \in 1..Len(outputs) : outputs[i].market_cap_usd # None }

YtdAt(i) == outputs[i].ytd_percent[1]

CapAt(i) == outputs[i].market_cap_usd[1]

\* the first record in input order with the highest / the lowest YTD
IsBestYtd(i) ==
    /\ i \in WithYtd
    /\ \A j \in WithYtd : YtdAt(j) <= YtdAt(i)
    /\ \A j \in WithYtd : j < i => YtdAt(j) < YtdAt(i)

IsWorstYtd(i) ==
    /\ i \in WithYtd
    /\ \A j \in WithYtd : YtdAt(j) >= YtdAt(i)
    /\ \A j \in WithYtd : j < i => YtdAt(j) > YtdAt(i)

\* the rule at the given place has been passed
Passed(rule) ==
    \/ pc \in {"truncate", "returned"}
    \/ RuleRank(pc) > RuleRank(rule)

\* C18: when a record has a YTD the first insight is the YTD insight and
\* names the first record in input order with the highest YTD, as leading
\* when that YTD is >= 0 and as declining the least when it is negative;
\* when no record has a YTD there is no YTD insight.
C18_YtdLeaderFirst ==
    Passed("ytd_leader") =>
        IF WithYtd # {}
        THEN /\ insights # <<>>
             /\ insights[1].rule = "ytd_leader"
             /\ \E i \in WithYtd :
                    /\ IsBestYtd(i)
                    /\ insights[1].exchange = outputs[i].exchange
                    /\ insights[1].value = YtdAt(i)
                    /\ insights[1].phrase =
                           IF YtdAt(i) >= 0 THEN "leads in YTD performance"
                           ELSE "declining the least"
        ELSE OfRule("ytd_leader") = <<>>

\* C18 witness: two records share the highest YTD and the first of them is
\* named, before a record with a lower YTD
C18_Witness ==
    /\ InsightsReturned
    /\ \E i, j \in WithYtd :
           /\ i < j
           /\ YtdAt(i) = YtdAt(j)
           /\ IsBestYtd(i)
           /\ insights[1].exchange = outputs[i].exchange
    /\ \E k \in WithYtd : YtdAt(k) < insights[1].value

\* C19: there is a spread observation exactly when at least two records
\* have a YTD and the highest exceeds the lowest by more than 10 points;
\* it comes right after the YTD insight, reports that difference and names
\* the exchanges of the highest and of the lowest YTD.
C19_SpreadAboveTen ==
    Passed("spread") =>
        IF Cardinality(WithYtd) >= 2
              /\ \E i, j \in WithYtd : YtdAt(i) - YtdAt(j) > 100
        THEN /\ Len(insights) >= 2
             /\ insights[2].rule = "spread"
             /\ \E i, j \in WithYtd :
                    /\ IsBestYtd(i)
                    /\ IsWorstYtd(j)
                    /\ insights[2].spread = YtdAt(i) - YtdAt(j)
                    /\ insights[2].best = outputs[i].exchange
                    /\ insights[2].worst = outputs[j].exchange
        ELSE OfRule("spread") = <<>>

\* C19 witness: a spread of 11 points, just above the threshold, reported
\* between two exchanges
C19_Witness ==
    /\ InsightsReturned
    /\ Len(OfRule("spread")) = 1
    /\ OfRule("spread")[1].spread = 110
    /\ OfRule("spread")[1].best # OfRule("spread")[1].worst

RECURSIVE CapSum(_)
CapSum(S) ==
    IF S = {} THEN 0
    ELSE LET i == CHOOSE x \in S : TRUE IN CapAt(i) + CapSum(S \ {i})

\* C20: when a record has a market cap and the caps sum to more than zero
\* there is exactly one dominance observation; it names the first record
\* with the largest cap and reports that cap's share of the sum of all
\* caps, times 100 (to a tenth of a percent), a share in (0, 100].
\* Without a cap, or with a sum of zero, there is none.
C20_DominanceShare ==
    Passed("dominance") =>
        IF WithCap # {} /\ CapSum(WithCap) > 0
        THEN /\ Len(OfRule("dominance")) = 1
             /\ \E i \in WithCap :
                    /\ \A j \in WithCap : CapAt(j) <= CapAt(i)
                    /\ \A j \in WithCap : j < i => CapAt(j) < CapAt(i)
                    /\ OfRule("dominance")[1].exchange = outputs[i].exchange
                    /\ OfRule("dominance")[1].value = CapAt(i)
                    /\ CapAt(i) > 0
                    /\ CapAt(i) <= CapSum(WithCap)
                    /\ LET share == OfRule("dominance")[1].share
                       IN  /\ 2 * (share * CapSum(WithCap) - 1000 * CapAt(i))
                                 \in (1 - CapSum(WithCap))..CapSum(WithCap)
                           /\ share > 0
                           /\ share <= 1000
        ELSE OfRule("dominance") = <<>>

\* C20 witness: three records with a cap, one of them zero, and the largest
\* holding two thirds of the sum (66.7%)
C20_Witness ==
    /\ InsightsReturned
    /\ Cardinality(WithCap) = 3
    /\ \E i \in WithCap : CapAt(i) = 0
    /\ Len(OfRule("dominance")) = 1
    /\ OfRule("dominance")[1].share = 667

-----------------------------------------------------------------------------
(* generate_insights: rules 4 to 7 and the currency note *)

WithAdtv == { i \in 1..Len(outputs) : outputs[i].adtv_usd # None }

AdtvAt(i) == outputs[i].adtv_usd[1]

\* the first record in input order with the highest ADTV
IsHighestAdtv(i) ==
    /\ i \in WithAdtv
    /\ \A j \in WithAdtv : AdtvAt(j) <= AdtvAt(i)
    /\ \A j \in WithAdtv : j < i => AdtvAt(j) < AdtvAt(i)

\* the record's turnover estimate ADTV / cap * 100 * 252 exists (the cap is
\* known and not zero) and does not exceed 500
EstimateWithinLimit(i) ==
    /\ i \in WithCap
    /\ CapAt(i) > 0
    /\ AdtvAt(i) * 100 * 252 <= 500 * CapAt(i)

\* C21: when a record has an ADTV there is exactly one liquidity
\* observation, naming the first record with the highest ADTV; it carries
\* the annualized turnover estimate ADTV / cap * 100 * 252 exactly when
\* that record's market cap is known and the estimate does not exceed 500
\* (an estimate of 500 is reported).  Without an ADTV there is none.
C21_LiquidityTurnover ==
    Passed("liquidity") =>
        IF WithAdtv # {}
        THEN /\ Len(OfRule("liquidity")) = 1
             /\ \E i \in WithAdtv :
                    /\ IsHighestAdtv(i)
                    /\ OfRule("liquidity")[1].exchange = outputs[i].exchange
                    /\ OfRule("liquidity")[1].value = AdtvAt(i)
                    /\ IF EstimateWithinLimit(i)
                       THEN /\ OfRule("liquidity")[1].turnover # None
                            /\ LET t == OfRule("liquidity")[1].turnover[1]
                               IN  2 * (t * CapAt(i) - AdtvAt(i) * 100 * 252)
                                       \in (1 - CapAt(i))..CapAt(i)
                       ELSE OfRule("liquidity")[1].turnover = None
        ELSE OfRule("liquidity") = <<>>

\* C21 witness: the record with the highest ADTV has a turnover estimate of
\* exactly 500, which is reported
C21_Witness ==
    /\ InsightsReturned
    /\ Len(OfRule("liquidity")) = 1
    /\ OfRule("liquidity")[1].turnover = Some(500)
    /\ \E i \in WithAdtv :
           /\ IsHighestAdtv(i)
           /\ AdtvAt(i) * 100 * 252 = 500 * CapAt(i)
    /\ Cardinality(WithAdtv) >= 2

\* the median the code takes of the YTDs / the caps: the value with at most
\* half of the values (rounded down) below it and more than that many at or
\* below it
MedianYtd ==
    CHOOSE m \in { YtdAt(i) : i \in WithYtd } :
        /\ Cardinality({ i \in WithYtd : YtdAt(i) < m })
               <= Cardinality(WithYtd) \div 2
        /\ Cardinality({ i \in WithYtd : YtdAt(i) <= m })
               > Cardinality(WithYtd) \div 2

MedianCap ==
    CHOOSE m \in { CapAt(i) : i \in WithCap } :
        /\ Cardinality({ i \in WithCap : CapAt(i) < m })
               <= Cardinality(WithCap) \div 2
        /\ Cardinality({ i \in WithCap : CapAt(i) <= m })
               > Cardinality(WithCap) \div 2

\* the records with a cap at or above the median cap and a YTD below the
\* median YTD
Divergent ==
    IF WithYtd = {} \/ WithCap = {} THEN {}
    ELSE { i \in WithYtd \cap WithCap :
             CapAt(i) >= MedianCap /\ YtdAt(i) < MedianYtd }

\* C22: there is a divergence observation exactly when some record has a
\* market cap at or above the median cap of the records with a cap and a
\* YTD strictly below the median YTD of the records with a YTD; there is
\* at most one and it names the first such record in input order.
C22_DivergenceFirst ==
    Passed("divergence") =>
        IF Divergent # {}
        THEN /\ Len(OfRule("divergence")) = 1
             /\ \E i \in Divergent :
                    /\ \A j \in Divergent : i <= j
                    /\ OfRule("divergence")[1].exchange = outputs[i].exchange
                    /\ OfRule("divergence")[1].value = CapAt(i)
                    /\ OfRule("divergence")[1].ytd = YtdAt(i)
        ELSE OfRule("divergence") = <<>>

\* C22 witness: two records are divergent and the first of them, which is
\* not the first record, is named
C22_Witness ==
    /\ InsightsReturned
    /\ Cardinality(Divergent) = 2
    /\ 1 \notin Divergent
    /\ Len(OfRule("divergence")) = 1
    /\ \E i \in Divergent :
           /\ \A j \in Divergent : i <= j
           /\ OfRule("divergence")[1].exchange = outputs[i].exchange

\* the place of a record among the records with a cap, smallest cap first,
\* and among the records with a YTD, highest YTD first (equal values in
\* input order), counted from 0
CapPlace(i) ==
    Cardinality({ j \in WithCap :
        CapAt(j) < CapAt(i) \/ (CapAt(j) = CapAt(i) /\ j < i) })

YtdPlace(i) ==
    Cardinality({ j \in WithYtd :
        YtdAt(j) > YtdAt(i) \/ (YtdAt(j) = YtdAt(i) /\ j < i) })

\* the records both in the bottom third by cap and in the top third by YTD
\* (a third being the first n // 3 + 1 of n records), when at least three
\* records have a cap
SmallAndTop ==
    IF Cardinality(WithCap) < 3 THEN {}
    ELSE { i \in WithCap \cap WithYtd :
             /\ CapPlace(i) <= Cardinality(WithCap) \div 3
             /\ YtdPlace(i) <= Cardinality(WithYtd) \div 3 }

\* C23 (as claimed): there is a small-cap-outperformer observation exactly
\* when the bottom third by cap and the top third by YTD have a record in
\* common; there is at most one, and the record it names is fixed by the
\* input: the first of the common records.
C23_SmallCapSameEveryRun ==
    Passed("small_cap") =>
        IF SmallAndTop # {}
        THEN /\ Len(OfRule("small_cap")) = 1
             /\ \E i \in SmallAndTop :
                    /\ \A j \in SmallAndTop : i <= j
                    /\ OfRule("small_cap")[1].exchange = outputs[i].exchange
        ELSE OfRule("small_cap") = <<>>

\* the regions with a YTD-valid record, and their records
YtdRegions == { outputs[i].region : i \in WithYtd }

RegionRecords(r) == { i \in WithYtd : outputs[i].region = r }

RECURSIVE YtdSum(_)
YtdSum(S) ==
    IF S = {} THEN 0
    ELSE LET i == CHOOSE x \in S : TRUE IN YtdAt(i) + YtdSum(S \ {i})

\* the mean YTD of region r is at least / more than that of region q
MeanAtLeast(r, q) ==
    YtdSum(RegionRecords(r)) * Cardinality(RegionRecords(q))
        >= YtdSum(RegionRecords(q)) * Cardinality(RegionRecords(r))

\* the first record of a region
FirstOf(r) ==
    CHOOSE i \in 1..Len(outputs) :
        /\ outputs[i].region = r
        /\ \A j \in 1..(i - 1) : outputs[j].region # r

\* the region with the highest mean YTD (of equal means, the one the
\* records name first)
IsBestRegion(r) ==
    /\ r \in YtdRegions
    /\ \A q \in YtdRegions : MeanAtLeast(r, q)
    /\ \A q \in YtdRegions :
          (MeanAtLeast(q, r) /\ q # r) => FirstOf(r) < FirstOf(q)

\* C24: there is a regional observation exactly when at least two regions
\* have a YTD-valid record and the highest regional mean YTD is above
\* zero; it names the region with the highest mean over its YTD-valid
\* records and reports that mean; a region without a YTD-valid record
\* does not count and is not named (the observations as rule 7 leaves
\* them, before the list is cut to six).
C24_RegionalMean ==
    (Passed("regional") /\ ~InsightsReturned) =>
        IF Cardinality(YtdRegions) >= 2
              /\ \E r \in YtdRegions : YtdSum(RegionRecords(r)) > 0
        THEN /\ Len(OfRule("regional")) = 1
             /\ \E r \in YtdRegions :
                    /\ IsBestRegion(r)
                    /\ OfRule("regional")[1].region = r
                    /\ 2 * (OfRule("regional")[1].value
                                * Cardinality(RegionRecords(r))
                             - 10 * YtdSum(RegionRecords(r)))
                           \in (1 - Cardinality(RegionRecords(r)))
                                  ..Cardinality(RegionRecords(r))
        ELSE OfRule("regional") = <<>>

\* C24 witness: the region named has one YTD, higher than the mean of the
\* other region's two YTDs although no higher than their sum, and a third
\* region has no YTD-valid record
C24_Witness ==
    /\ InsightsReturned
    /\ Len(OfRule("regional")) = 1
    /\ \E i \in 1..Len(outputs) : outputs[i].region \notin YtdRegions
    /\ Cardinality(YtdRegions) = 2
    /\ \E r, q \in YtdRegions :
           /\ r # q
           /\ OfRule("regional")[1].region = r
           /\ Cardinality(RegionRecords(q)) = 2
           /\ YtdSum(RegionRecords(q)) >= YtdSum(RegionRecords(r))

\* the observations of rules 1 to 7 in the list
RuleObservations ==
    SelectSeq(insights,
              LAMBDA x : x.rule \notin {"currency_note", "completeness"})

LocalCurrencies == { outputs[i].local_currency : i \in 1..Len(outputs) }

\* C25: the currency note is in the list exactly when rules 1 to 7 made
\* fewer than 4 observations and the records have more than one local
\* currency; it comes right after the rule observations and before the
\* data-completeness note.
C25_CurrencyNote ==
    Passed("currency_note") =>
        /\ Len(OfRule("currency_note")) =
              IF Len(RuleObservations) < 4 /\ Cardinality(LocalCurrencies) > 1
              THEN 1 ELSE 0
        /\ OfRule("currency_note") # <<>> =>
              /\ insights[Len(RuleObservations) + 1].rule = "currency_note"
              /\ \A i \in 1..Len(RuleObservations) :
                    insights[i].rule \notin {"currency_note", "completeness"}
              /\ \A i \in 1..Len(insights) :
                    insights[i].rule = "completeness"
                        => i = Len(RuleObservations) + 2

\* C25 witness: a returned list with three rule observations, then the
\* currency note, then the data-completeness note
C25_Witness ==
    /\ InsightsReturned
    /\ Len(RuleObservations) = 3
    /\ Len(insights) = 5
    /\ insights[4].rule = "currency_note"
    /\ insights[5].rule = "completeness"

(***************************************************************************)
(* DateRange and create_date_range                                         *)
(***************************************************************************)
\* the years of the sidebar's selectbox are 0..MaxYear, MaxYear being the
\* current year; a year has two days here, January 1 and December 31
MaxYear == 1

\* the number of DateRange constructions followed
MaxCalls == 2

Years == 0..MaxYear

Jan1(year) == 2 * year + 1

Dec31(year) == 2 * year + 2

Days == Jan1(0)..Dec31(MaxYear)

\* date.today(): a day of the current year
Today == {Jan1(MaxYear), Dec31(MaxYear)}

DateRangeError == "Start date must be before or equal to end date"

\* C26 mutant: a range of one day is refused too
post_init_strict(start_date, end_date) == start_date < end_date

\* DateRange.__post_init__: TRUE when it does not raise
post_init(start_date, end_date) == ~(start_date > end_date)

\* the DateRange dataclass
DateRange(start_date, end_date, preset, year) ==
    [start_date |-> start_date, end_date |-> end_date,
     preset |-> preset, year |-> year]

\* create_date_range: the arguments it gives to DateRange
create_date_range(preset, year, custom_start, custom_end, today) ==
    IF preset = "YTD" THEN DateRange(Jan1(year), today, "YTD", year)
    ELSE IF preset = "Full Year"
         THEN DateRange(Jan1(year), Dec31(year), "FULL_YEAR", year)
         ELSE DateRange(custom_start, custom_end, "CUSTOM", year)

InitDates ==
    /\ InitCommon
    /\ entry = "dates"
    /\ pc = "sidebar"
    /\ inputs = <<>>
    /\ config = None
    /\ date_range = None
    /\ required_currencies = <<>>

\* one construction: the record exists when __post_init__ returns, and the
\* ValueError leaves the caller without one
Construct(args) ==
    /\ entry = "dates"
    /\ Len(calls) < MaxCalls
    /\ calls' = Append(calls, args)
    /\ IF post_init(args.start_date, args.end_date)
       THEN date_range' = Some(args) /\ UNCHANGED errors
       ELSE errors' = Append(errors, DateRangeError) /\ UNCHANGED date_range
    /\ UNCHANGED <<entry, inputs, config, required_currencies, pc, idx, rates,
                   status, outputs, audit_records, insights>>

CreateYtd ==
    \E year \in Years, today \in Today :
        Construct(create_date_range("YTD", year, None, None, today))

CreateFullYear ==
    \E year \in Years, today \in Today :
        Construct(create_date_range("Full Year", year, None, None, today))

CreateCustom ==
    \E year \in Years, today \in Today, custom_start, custom_end \in Days :
        Construct(create_date_range("Custom", year, custom_start, custom_end,
                                    today))

NextDates == CreateYtd \/ CreateFullYear \/ CreateCustom

SpecDates == InitDates /\ [][NextDates]_vars

\* the constructions that raised, and the last one that did not
Refused == SelectSeq(calls, LAMBDA a : a.start_date > a.end_date)

Accepted == SelectSeq(calls, LAMBDA a : a.start_date <= a.end_date)

\* C26: a DateRange that exists has start_date <= end_date: every
\* construction with start_date > end_date raised the error and left no
\* record, and every other one, start_date = end_date included, gave the
\* record of its arguments.
C26_DateRangeOrdered ==
    entry = "dates" =>
        /\ date_range # None =>
              date_range[1].start_date <= date_range[1].end_date
        /\ Len(errors) = Len(Refused)
        /\ \A i \in 1..Len(errors) : errors[i] = DateRangeError
        /\ date_range =
              IF Accepted = <<>> THEN None
              ELSE Some(Accepted[Len(Accepted)])

\* C26 witness: a range of one day was constructed after a construction
\* with the dates the wrong way round had raised
C26_Witness ==
    /\ entry = "dates"
    /\ Len(calls) = 2
    /\ calls[1].start_date > calls[1].end_date
    /\ calls[2].start_date = calls[2].end_date
    /\ date_range = Some(calls[2])
    /\ Len(errors) = 1

(***************************************************************************)
(* The formatters applied to one value                                     *)
(***************************************************************************)
\* the highest power of ten among the values formatted
MaxExp == 11

Mantissas == {1, 15, 23, 999, 1000}

\* no value, a negative value, zero, and the values at, around and between
\* the thresholds
FormatValues ==
    {None, Some(Dec(-5, 0)), Some(Dec(0, 0))}
        \cup { Some(Dec(m, e)) : m \in Mantissas, e \in 0..MaxExp }

InitFormat ==
    /\ InitCommon
    /\ entry = "format"
    /\ pc = "format_market_cap"
    /\ inputs \in FormatValues
    /\ config = None
    /\ date_range = None
    /\ required_currencies = <<>>

FormatFrame ==
    UNCHANGED <<entry, inputs, config, date_range, required_currencies, idx,
                rates, errors, status, calls, audit_records, insights>>

FormatMarketCap ==
    /\ pc = "format_market_cap"
    /\ outputs' = Append(outputs, format_market_cap(inputs))
    /\ pc' = "format_adtv"
    /\ FormatFrame

FormatAdtv ==
    /\ pc = "format_adtv"
    /\ outputs' = Append(outputs, format_adtv(inputs))
    /\ pc' = "again"
    /\ FormatFrame

\* the same value formatted a second time
FormatAgain ==
    /\ pc = "again"
    /\ outputs' = outputs \o << format_market_cap(inputs), format_adtv(inputs) >>
    /\ pc' = "formatted"
    /\ FormatFrame

NextFormat == FormatMarketCap \/ FormatAdtv \/ FormatAgain

SpecFormat == InitFormat /\ [][NextFormat]_vars

Formatted == entry = "format" /\ pc = "formatted"

\* the suffix for a value by the thresholds 10^12, 10^9, 10^6 and, when
\* the formatter has it, 10^3
SuffixByThreshold(d, with_k) ==
    IF AtLeastPow10(d, 12) THEN "T"
    ELSE IF AtLeastPow10(d, 9) THEN "B"
    ELSE IF AtLeastPow10(d, 6) THEN "M"
    ELSE IF with_k /\ AtLeastPow10(d, 3) THEN "K"
    ELSE ""

\* C27: market cap and ADTV get their suffix by the same thresholds, "T"
\* from 10^12, "B" from 10^9, "M" from 10^6, and ADTV alone "K" from 10^3;
\* a value below the lowest threshold gets no suffix, and the same value
\* formatted twice gives the same string.
C27_SameThresholds ==
    (Formatted /\ inputs # None) =>
        /\ outputs[1].suffix = SuffixByThreshold(inputs[1], FALSE)
        /\ outputs[2].suffix = SuffixByThreshold(inputs[1], TRUE)
        /\ outputs[3] = outputs[1]
        /\ outputs[4] = outputs[2]

\* what the formatters do: the ADTV of 10^12 and more keeps the suffix "B"
AdtvHasNoT ==
    (Formatted /\ inputs # None) =>
        /\ outputs[1].suffix = SuffixByThreshold(inputs[1], FALSE)
        /\ outputs[2].suffix =
              IF AtLeastPow10(inputs[1], 12) THEN "B"
              ELSE SuffixByThreshold(inputs[1], TRUE)
        /\ outputs[3] = outputs[1]
        /\ outputs[4] = outputs[2]

\* C28: in every output record each display string is "N/A" exactly when
\* the value it shows is absent: the YTD, the market cap in USD and the
\* ADTV in USD; a value that is present, zero included, is never shown as
\* "N/A".
C28_NaIffAbsent ==
    entry = "compute" =>
        \A i \in 1..Len(outputs) :
            /\ outputs[i].ytd_percent_display = NA
                  <=> outputs[i].ytd_percent = None
            /\ outputs[i].market_cap_usd_display = NA
                  <=> outputs[i].market_cap_usd = None
            /\ outputs[i].adtv_usd_display = NA
                  <=> outputs[i].adtv_usd = None

\* C28 witness: returned records with a YTD of zero and a market cap of
\* zero dollars, both shown, and with no market cap, shown as "N/A"
C28_Witness ==
    /\ entry = "compute"
    /\ Returned
    /\ \E i \in 1..Len(outputs) :
          /\ outputs[i].ytd_percent = Some(0)
          /\ outputs[i].ytd_percent_display = Shown("+", 0, 2, "%")
          /\ outputs[i].market_cap_usd = None
          /\ outputs[i].market_cap_usd_display = NA
    /\ \E i \in 1..Len(outputs) :
          /\ outputs[i].market_cap_usd = Some(0)
          /\ outputs[i].market_cap_usd_display = Shown("$", 0, 0, "")
          /\ outputs[i].ytd_percent_display = NA

\* C29: every entry of a returned rate table has a rate above 0 and is
\* stored under the currency it converts from: the entry under key c has
\* base currency c and the reporting currency as quote currency.
C29_EntriesUnderTheirCurrency ==
    Returned =>
        \A c \in DOMAIN rates :
            /\ rates[c].rate > 0
            /\ rates[c].base_currency = c
            /\ rates[c].quote_currency = Quote

(***************************************************************************)
(* app.py: the dashboard, one action per branch of a rerun of main()       *)
(*                                                                         *)
(* In a rerun, config, date_range and inputs are what render_sidebar and   *)
(* the data entry returned; outputs is st.session_state.computed_results,  *)
(* status what the audit panel and the export metadata of the page say,    *)
(* calls the arguments of the compute_exchange_outputs call that gave the  *)
(* stored results.                                                         *)
(***************************************************************************)
\* one pass of the loop of fx.py lines 41-105: the table and the errors
\* after the currency, r being what its lookups gave
LivePass(cfg, currency, table, errs, r) ==
    IF currency = ValueOf(cfg.output_currency)
    THEN [raised |-> FALSE, errs |-> errs,
          rates |-> Put(table, currency,
                        FXRate(currency, currency, IdentityRate, "identity"))]
    ELSE IF r.raised
    THEN [raised |-> TRUE, errs |-> errs, rates |-> table]
    ELSE IF r.rate = None
    THEN [raised |-> FALSE, errs |-> errs \o r.errs, rates |-> table]
    ELSE IF FXRateValid(currency, r.rate[1])
    THEN [raised |-> FALSE, errs |-> errs \o r.errs,
          rates |-> Put(table, currency,
                        FXRate(currency, ValueOf(cfg.output_currency),
                               r.rate[1], r.used_source))]
    ELSE [raised |-> TRUE, errs |-> errs, rates |-> table]

RECURSIVE get_live_fx_rates(_, _, _, _, _, _)
RECURSIVE LiveRest(_, _, _, _, _)

\* get_live_fx_rates, fx.py lines 41-108, over the currencies left, the
\* two providers answering pa and sa
get_live_fx_rates(cfg, required, table, errs, pa, sa) ==
    IF required = <<>>
    THEN [raised |-> FALSE, rates |-> table, status |-> LiveStatus(errs)]
    ELSE LiveRest(cfg, required, pa, sa,
                  LivePass(cfg, Head(required), table, errs,
                           LiveLookup(Head(required), cfg.live_fx_source,
                                      pa, sa)))

\* the loop after a pass
LiveRest(cfg, required, pa, sa, pass) ==
    IF pass.raised
    THEN [raised |-> TRUE, rates |-> pass.rates,
          status |-> LiveStatus(pass.errs)]
    ELSE get_live_fx_rates(cfg, Tail(required), pass.rates, pass.errs, pa, sa)

\* fx.py lines 194-216 with the status of lines 214-216
ManualRates(required, r) ==
    [raised |-> r.raised, rates |-> r.rates,
     status |-> ManualStatus(required, r.rates)]

\* get_fx_rates, fx.py lines 168-259
get_fx_rates(cfg, required, dr, pa, sa) ==
    IF cfg.mode = "live_spot"
    THEN get_live_fx_rates(cfg, required, EmptyTable, <<>>, pa, sa)
    ELSE IF cfg.mode = "manual"
    THEN ManualRates(required, ManualLoop(cfg, required, EmptyTable))
    ELSE AverageRates(cfg, required, dr)

\* compute.py lines 113-166: the record and the audit record of an input
ConvertOne(inp, fx_rate) ==
    [output |-> ExchangeOutput(inp, inp.local_currency, fx_rate),
     audit |-> AuditRecord(inp, inp.local_currency, fx_rate)]

\* compute.py lines 113-168, fx being what get_fx_rates gave
ConvertAll(exchange_inputs, fx) ==
    [raised |-> fx.raised,
     outputs |-> [i \in 1..Len(exchange_inputs) |->
                     ConvertOne(exchange_inputs[i],
                                Get(fx.rates,
                                    exchange_inputs[i].local_currency)).output],
     audit_records |-> [i \in 1..Len(exchange_inputs) |->
                     ConvertOne(exchange_inputs[i],
                                Get(fx.rates,
                                    exchange_inputs[i].local_currency)).audit],
     fx_rates |-> fx.rates,
     fx_status |-> fx.status]

\* compute_exchange_outputs, compute.py lines 81-168: required is the order
\* list(set(...)) gave
compute_exchange_outputs(exchange_inputs, cfg, dr, required, pa, sa) ==
    ConvertAll(exchange_inputs,
               get_fx_rates(cfg, required,
                            Some(<<dr.start_date, dr.end_date>>), pa, sa))

\* the configurations render_sidebar builds: Currency.USD in every mode;
\* one configuration of each mode
AppConfigs ==
    { c \in PipelineConfigs :
        /\ c.output_currency = [code |-> "USD", is_enum |-> TRUE]
        /\ c.mode = "manual" => c.manual_rates = ("KWD" :> 32500)
        /\ c.mode = "average" => c.average_fx_data = Some(SeriesA) }

\* what the two providers can answer in a rerun; they are asked in Live
\* mode only
ProviderAnswers(fx_config) ==
    IF fx_config.mode = "live_spot"
    THEN PrimaryAnswers \X SecondaryAnswers
    ELSE { << [kind |-> "exception", result |-> 0],
              [kind |-> "exception", result |-> 0] >> }

\* the date ranges of the sidebar: this year to date, and a full year
AppDateRanges ==
    { create_date_range("YTD", MaxYear, None, None, Dec31(MaxYear)),
      create_date_range("Full Year", 0, None, None, Dec31(MaxYear)) }

\* the records entered: none, or the complete record of one exchange
AppInputLists ==
    {<<>>} \cup { <<x>> : x \in { y \in ExchangeInputs :
                                    /\ y.exchange = "Boursa Kuwait"
                                    /\ y.source = "web" } }

\* nothing below the button, or the audit panel (app.py lines 653-667) and
\* the export metadata (compute.py lines 298-309)
NoPage == [audit_panel |-> None, metadata |-> None]

Page(fx_config, dr) ==
    [audit_panel |-> Some([fx_mode |-> fx_config.mode,
                           output_currency |-> fx_config.output_currency,
                           start_date |-> dr.start_date,
                           end_date |-> dr.end_date]),
     metadata |-> Some([fx_mode |-> fx_config.mode,
                        output_currency |-> PyStr(fx_config.output_currency),
                        date_range |-> dr])]

\* lines 829-866: the results are displayed when there are any
Display(results, fx_config, dr) ==
    IF results # None THEN Page(fx_config, dr) ELSE NoPage

\* init_session_state on the first run: computed_results is None
InitApp ==
    /\ InitCommon
    /\ entry = "app"
    /\ pc = "start"
    /\ inputs = <<>>
    /\ config = None
    /\ date_range = None
    /\ required_currencies = <<>>

AppFrame ==
    UNCHANGED <<entry, required_currencies, idx, rates, errors, audit_records,
                insights>>

\* lines 776-778: no exchange selected, main returns after the warning
RerunNoSelection ==
    /\ entry = "app"
    /\ \E fx_config \in AppConfigs, dr \in AppDateRanges :
          /\ config' = fx_config
          /\ date_range' = Some(dr)
          /\ inputs' = <<>>
          /\ status' = NoPage
          /\ pc' = "no_selection"
    /\ UNCHANGED <<outputs, calls>>
    /\ AppFrame

\* lines 808-866 with the button not clicked, or clicked with no records
RerunView ==
    /\ entry = "app"
    /\ \E fx_config \in AppConfigs, dr \in AppDateRanges,
          exchange_inputs \in AppInputLists, generate_clicked \in BOOLEAN :
          /\ ~(generate_clicked /\ exchange_inputs # <<>>)
          /\ config' = fx_config
          /\ date_range' = Some(dr)
          /\ inputs' = exchange_inputs
          /\ status' = Display(outputs, fx_config, dr)
          /\ pc' = IF generate_clicked THEN "clicked" ELSE "viewed"
    /\ UNCHANGED <<outputs, calls>>
    /\ AppFrame

\* lines 808-866 with the button clicked and records entered
RerunGenerate ==
    /\ entry = "app"
    /\ \E fx_config \in AppConfigs, dr \in AppDateRanges,
          exchange_inputs \in AppInputLists \ {<<>>} :
          \E answers \in ProviderAnswers(fx_config) :
          \E r \in { compute_exchange_outputs(
                         exchange_inputs, fx_config, dr,
                         << exchange_inputs[1].local_currency >>,
                         answers[1], answers[2]) } :
              /\ config' = fx_config
              /\ date_range' = Some(dr)
              /\ inputs' = exchange_inputs
              /\ IF r.raised
                 THEN /\ status' = NoPage
                      /\ pc' = "raised"
                      /\ UNCHANGED <<outputs, calls>>
                 ELSE /\ outputs' = Some([outputs |-> r.outputs,
                                          audit_records |-> r.audit_records,
                                          fx_rates |-> r.fx_rates,
                                          fx_status |-> r.fx_status])
                      /\ status' = Page(fx_config, dr)
                      /\ pc' = "generated"
                      /\ calls' = << [fx_config |-> fx_config,
                                      date_range |-> dr] >>
    /\ AppFrame

NextApp == RerunNoSelection \/ RerunView \/ RerunGenerate

SpecApp == InitApp /\ [][NextApp]_vars

\* the page names the configuration the stored results were computed under
LabelledAsComputed ==
    /\ status.audit_panel # None =>
          /\ calls # <<>>
          /\ status.audit_panel[1].fx_mode = calls[1].fx_config.mode
          /\ status.audit_panel[1].output_currency
                = calls[1].fx_config.output_currency
          /\ status.audit_panel[1].start_date = calls[1].date_range.start_date
          /\ status.audit_panel[1].end_date = calls[1].date_range.end_date
    /\ status.metadata # None =>
          /\ calls # <<>>
          /\ status.metadata[1].fx_mode = calls[1].fx_config.mode
          /\ status.metadata[1].output_currency
                = PyStr(calls[1].fx_config.output_currency)
          /\ status.metadata[1].date_range = calls[1].date_range

\* C30: over the reruns of the dashboard the stored computed_results change
\* only in a rerun with the Generate button clicked and records entered,
\* and the FX mode, reporting currency and date range of the audit panel
\* and of the export metadata are those the stored results were computed
\* under.
C30_ResultsKeepTheirLabels ==
    [][ /\ outputs' # outputs => (pc' = "generated" /\ inputs' # <<>>)
        /\ LabelledAsComputed' ]_vars

====
